---------------------------- MODULE Spec2Model ----------------------------
(***************************************************************************)
(* Model of src/audit/log_audit.py: the access-log audit engine.           *)
(*                                                                         *)
(* Strings are sequences of lexemes.  A lexeme is either one character     *)
(* ("/", "?", "%", "=", "&", "_", "#", a digit, a hex digit, ...) or a     *)
(* whole word ("download", "fileId", "wopi", ...).  The alphabet is chosen *)
(* so that no word occurs inside another word or across a boundary of two  *)
(* lexemes, and no word starts with two hexadecimal characters; substring  *)
(* tests, regular-expression searches and percent-decoding on the Python   *)
(* strings then agree with the same operations on lexeme sequences.        *)
(*                                                                         *)
(* Absent values: an absent username is "", an absent path is << >>, an    *)
(* absent object id is NoId.  The program never produces an empty-string   *)
(* username for an event, so "" is free to stand for None.                 *)
(***************************************************************************)
EXTENDS Integers, Sequences, FiniteSets, TLC

(***************************************************************************)
(* Lexemes                                                                 *)
(***************************************************************************)
Hex    == {"2", "3", "5", "F"}
Digits == {"0", "2", "3", "5"}

DigitVal(d) == CASE d = "0" -> 0 [] d = "2" -> 2 [] d = "3" -> 3 [] d = "5" -> 5

\* str.lower() on one lexeme
LowerTok(t) ==
    CASE t = "Download" -> "download"
      [] t = "fileId"   -> "fileid"
      [] t = ".PDF"     -> ".pdf"
      [] t = "F"        -> "f"
      [] t = "R"        -> "r"
      [] t = "S"        -> "s"
      [] t = "U"        -> "u"
      [] OTHER          -> t

\* the character a %XY escape decodes to (bytes >= 0x80 that do not form
\* valid UTF-8 become U+FFFD, written "REPL")
PctDecode(a, b) ==
    CASE a = "2" /\ b = "2" -> "\""
      [] a = "2" /\ b = "3" -> "#"
      [] a = "2" /\ b = "5" -> "%"
      [] a = "2" /\ b = "F" -> "/"
      [] a = "3" /\ b = "2" -> "2"
      [] a = "3" /\ b = "3" -> "3"
      [] a = "3" /\ b = "5" -> "5"
      [] a = "3" /\ b = "F" -> "?"
      [] a = "5" /\ b = "2" -> "R"
      [] a = "5" /\ b = "3" -> "S"
      [] a = "5" /\ b = "5" -> "U"
      [] a = "5" /\ b = "F" -> "_"
      [] OTHER              -> "REPL"

(***************************************************************************)
(* Generic string helpers (Python str methods and operators)               *)
(***************************************************************************)
\* index of the first occurrence of lexeme c in s at or after i, 0 if none
RECURSIVE FindFrom(_, _, _)
FindFrom(s, c, i) ==
    IF i > Len(s) THEN 0
    ELSE IF s[i] = c THEN i
    ELSE FindFrom(s, c, i + 1)

Find(s, c) == FindFrom(s, c, 1)

\* s[a..b], empty when a > b
Slice(s, a, b) == IF a > b THEN << >> ELSE SubSeq(s, a, b)

\* p occurs in s starting at position i
MatchAt(s, p, i) ==
    /\ i >= 1
    /\ i + Len(p) - 1 <= Len(s)
    /\ \A j \in 1..Len(p) : s[i + j - 1] = p[j]

\* Python's  p in s
Contains(s, p) == \E i \in 1..(Len(s) + 1) : MatchAt(s, p, i)

\* str.rstrip('/')
RECURSIVE rstrip_slash(_)
rstrip_slash(s) ==
    IF Len(s) > 0 /\ s[Len(s)] = "/" THEN rstrip_slash(SubSeq(s, 1, Len(s) - 1))
    ELSE s

\* str.split('?', 1)[0]
split_query(s) ==
    LET q == Find(s, "?") IN IF q = 0 THEN s ELSE Slice(s, 1, q - 1)

\* urllib.parse.unquote: one left-to-right pass, %XY with two hex digits
\* is replaced by its character, any other "%" is kept
RECURSIVE unquoteFrom(_, _)
unquoteFrom(s, i) ==
    IF i > Len(s) THEN << >>
    ELSE IF s[i] = "%" /\ i + 2 <= Len(s) /\ s[i + 1] \in Hex /\ s[i + 2] \in Hex
         THEN <<PctDecode(s[i + 1], s[i + 2])>> \o unquoteFrom(s, i + 3)
         ELSE <<s[i]>> \o unquoteFrom(s, i + 1)

unquote(s) == unquoteFrom(s, 1)

\* str.lower()
lower(s) == [i \in 1..Len(s) |-> LowerTok(s[i])]

(***************************************************************************)
(* normalize_resource                                                      *)
(***************************************************************************)
normalize_resource(r) ==
    IF r = << >> THEN r
    ELSE rstrip_slash(unquote(split_query(r)))

(***************************************************************************)
(* urllib.parse.urlparse / parse_qs, restricted to what detect_event_type  *)
(* reads (path and query).  The alphabet has no ":" or ";", so a URL has   *)
(* no scheme and no params; a leading "//" introduces a network location.  *)
(***************************************************************************)
\* first position at or after i holding "/", "?" or "#", Len(s)+1 if none
RECURSIVE NetlocEnd(_, _)
NetlocEnd(s, i) ==
    IF i > Len(s) THEN i
    ELSE IF s[i] \in {"/", "?", "#"} THEN i
    ELSE NetlocEnd(s, i + 1)

urlparse(url) ==
    LET hasNet  == Len(url) >= 2 /\ url[1] = "/" /\ url[2] = "/"
        afterNet == IF hasNet THEN Slice(url, NetlocEnd(url, 3), Len(url)) ELSE url
        h       == Find(afterNet, "#")
        noFrag  == IF h = 0 THEN afterNet ELSE Slice(afterNet, 1, h - 1)
        q       == Find(noFrag, "?")
    IN  [path  |-> IF q = 0 THEN noFrag ELSE Slice(noFrag, 1, q - 1),
         query |-> IF q = 0 THEN << >> ELSE Slice(noFrag, q + 1, Len(noFrag))]

\* the keys parse_qs(query) returns: the query is split at "&", each field
\* at its first "="; a field with no "=" or with an empty value is dropped
\* (keep_blank_values is False); the key is percent-decoded
RECURSIVE qs_keys_from(_, _)
qs_keys_from(query, i) ==
    IF i > Len(query) THEN {}
    ELSE LET amp   == FindFrom(query, "&", i)
             last  == IF amp = 0 THEN Len(query) ELSE amp - 1
             field == Slice(query, i, last)
             eq    == Find(field, "=")
             keep  == eq # 0 /\ eq < Len(field)
             rest  == IF amp = 0 THEN {} ELSE qs_keys_from(query, amp + 1)
         IN  IF keep THEN {unquote(Slice(field, 1, eq - 1))} \cup rest ELSE rest

parse_qs_keys(query) == qs_keys_from(query, 1)

\* 'download' in s.lower()
HasDownload(s) == \E i \in 1..Len(s) : LowerTok(s[i]) = "download"

\* FILE_EXT_RE.search(path): a recognized extension followed by the end of
\* the string or by "?", case-insensitively
FileExts == {".pdf"}
FILE_EXT_RE_search(path) ==
    \E i \in 1..Len(path) :
        /\ LowerTok(path[i]) \in FileExts
        /\ (i = Len(path) \/ path[i + 1] = "?")

\* str.upper() on an HTTP method
upper(m) ==
    CASE m = "get"      -> "GET"
      [] m = "propfind" -> "PROPFIND"
      [] OTHER          -> m

(***************************************************************************)
(* detect_event_type                                                       *)
(***************************************************************************)
\* detect_event_type without the file-extension rule of line 190
detect_event_type_NoExtension(method, status, resource) ==
    LET up   == urlparse(resource)
        keys == parse_qs_keys(up.query)
        path == IF up.path # << >> THEN up.path ELSE resource
        m    == upper(method)
    IN  IF HasDownload(path) \/ (\E k \in keys : HasDownload(k)) THEN "download"
        ELSE IF m = "PROPFIND" THEN "list"
        ELSE IF m = "GET" /\ status = 200 THEN "view"
        ELSE "other"

detect_event_type(method, status, resource) ==
    LET up   == urlparse(resource)
        keys == parse_qs_keys(up.query)
        path == IF up.path # << >> THEN up.path ELSE resource
        m    == upper(method)
    IN  IF HasDownload(path) \/ (\E k \in keys : HasDownload(k)) THEN "download"
        ELSE IF m = "PROPFIND" THEN "list"
        ELSE IF m = "GET" /\ status = 200 /\ FILE_EXT_RE_search(path) THEN "download"
        ELSE IF m = "GET" /\ status = 200 THEN "view"
        ELSE "other"

(***************************************************************************)
(* canonical_key_for_resource                                              *)
(***************************************************************************)
NoId == -1

\* leftmost position where prefix p is followed by a digit, 0 if none:
\* re.search(p + r'(\d+)', s)
RECURSIVE SearchIdFrom(_, _, _)
SearchIdFrom(s, p, i) ==
    IF i + Len(p) > Len(s) THEN 0
    ELSE IF MatchAt(s, p, i) /\ s[i + Len(p)] \in Digits THEN i + Len(p)
    ELSE SearchIdFrom(s, p, i + 1)

\* int() of the longest run of digits starting at position i (greedy \d+)
RECURSIVE IntFrom(_, _, _)
IntFrom(s, i, acc) ==
    IF i <= Len(s) /\ s[i] \in Digits
    THEN IntFrom(s, i + 1, acc * 10 + DigitVal(s[i]))
    ELSE acc

\* position just after the digits starting at i
RECURSIVE DigitsEnd(_, _)
DigitsEnd(s, i) ==
    IF i <= Len(s) /\ s[i] \in Digits THEN DigitsEnd(s, i + 1) ELSE i

\* re.search(r'/wopi/files/(\d+)_', s): the digits must be followed by "_";
\* a run of digits not followed by "_" cannot be shortened to match,
\* because the character before "_" would then still be a digit
RECURSIVE SearchWopiFrom(_, _)
SearchWopiFrom(s, i) ==
    LET p == <<"/", "wopi", "/", "files", "/">> IN
    IF i + Len(p) > Len(s) THEN 0
    ELSE IF /\ MatchAt(s, p, i)
            /\ s[i + Len(p)] \in Digits
            /\ DigitsEnd(s, i + Len(p)) <= Len(s)
            /\ s[DigitsEnd(s, i + Len(p))] = "_"
         THEN i + Len(p)
         ELSE SearchWopiFrom(s, i + 1)

FileIdKey(n)        == [kind |-> "fileid", fid |-> n, res |-> << >>]
ResourceKey(r)      == [kind |-> "resource", fid |-> NoId, res |-> r]

\* returns the pair (key, fid) of the source as [key, fid]
canonical_key_for_resource(resource) ==
    LET res == normalize_resource(resource)
        m1  == SearchIdFrom(res, <<"fileId", "=">>, 1)
        m2  == SearchIdFrom(res, <<"/", "download", "/">>, 1)
        m3  == SearchWopiFrom(res, 1)
        m   == IF m1 # 0 THEN m1 ELSE IF m2 # 0 THEN m2 ELSE m3
    IN  IF m # 0
        THEN [key |-> FileIdKey(IntFrom(res, m, 0)), fid |-> IntFrom(res, m, 0)]
        ELSE [key |-> ResourceKey(res), fid |-> NoId]


(***************************************************************************)
(* Configuration (defaults of the environment variables)                   *)
(***************************************************************************)
DEDUPE_SECONDS     == 2
CORRELATION_WINDOW == 30
RESOLVE_WAIT       == 10
RESOLVE_INTERVAL   == 1

IGNORE_PATTERNS ==
    { <<"/", "index.php", "/", "apps", "/", "richdocuments", "/", "wopi", "/", "settings">>,
      <<"/", "index.php", "/", "apps", "/", "richdocuments", "/", "wopi", "/", "thumbnail">> }

HUMAN_BLACKLIST == {"nextcloud", "system", "www-data", "cron", "root", ""}

\* Python truthiness of an object id (None and 0 are false)
Truthy(id) == id # NoId /\ id # 0

Abs(x) == IF x < 0 THEN -x ELSE x

(***************************************************************************)
(* IdentityCache: recent_actions is a dict, kept here in insertion order   *)
(* as a sequence of [k, u, t, aware].  t is the hint's timestamp in        *)
(* seconds; aware says that dateutil parsed it with a UTC offset.          *)
(* datetime.utcnow() is naive, and Python raises TypeError when a naive    *)
(* and an aware datetime are compared or subtracted.                       *)
(***************************************************************************)
TypeError == "<TypeError>"

\* position of key k in the dict, 0 if absent
RECURSIVE CacheIndex(_, _, _)
CacheIndex(cache, k, i) ==
    IF i > Len(cache) THEN 0
    ELSE IF cache[i].k = k THEN i
    ELSE CacheIndex(cache, k, i + 1)

\* recent_actions[resource] = (user, ts): an existing key keeps its place
CachePut(cache, e) ==
    LET i == CacheIndex(cache, e.k, 1) IN
    IF i = 0 THEN Append(cache, e) ELSE [cache EXCEPT ![i] = e]

\* the pruning loop of add_recent_action over a snapshot of the items, from
\* position i on: pop every entry with t < cutoff; the comparison raises
\* at the first aware timestamp and the rest is left as it is
RECURSIVE CachePrune(_, _, _)
CachePrune(cache, cutoff, i) ==
    IF i > Len(cache) THEN << >>
    ELSE IF cache[i].aware THEN Slice(cache, i, Len(cache))
    ELSE IF cache[i].t < cutoff THEN CachePrune(cache, cutoff, i + 1)
    ELSE <<cache[i]>> \o CachePrune(cache, cutoff, i + 1)

add_recent_action(cache, resource, user, ts, aware, clock) ==
    IF resource = << >> \/ user = "" THEN cache
    ELSE CachePrune(CachePut(cache, [k |-> resource, u |-> user, t |-> ts, aware |-> aware]),
                    clock - CORRELATION_WINDOW, 1)

\* GuessScan without the test of the window
RECURSIVE GuessScan_NoWindow(_, _, _, _)
GuessScan_NoWindow(cache, resource, clock, i) ==
    IF i > Len(cache) THEN ""
    ELSE IF cache[i].aware THEN TypeError
    ELSE IF Contains(resource, cache[i].k) \/ Contains(cache[i].k, resource)
         THEN cache[i].u
    ELSE GuessScan_NoWindow(cache, resource, clock, i + 1)

\* the fallback loop of guess_username from position i on: the first
\* entry inside the window whose key contains the resource or is
\* contained in it; "" if none; TypeError at an aware timestamp
RECURSIVE GuessScan(_, _, _, _)
GuessScan(cache, resource, clock, i) ==
    IF i > Len(cache) THEN ""
    ELSE IF cache[i].aware THEN TypeError
    ELSE IF clock - cache[i].t > CORRELATION_WINDOW
         THEN GuessScan(cache, resource, clock, i + 1)
    ELSE IF Contains(resource, cache[i].k) \/ Contains(cache[i].k, resource)
         THEN cache[i].u
    ELSE GuessScan(cache, resource, clock, i + 1)

guess_username(cache, resource, clock) ==
    IF resource = << >> THEN ""
    ELSE LET i == CacheIndex(cache, resource, 1) IN
         IF i # 0 /\ cache[i].aware THEN TypeError
         ELSE IF i # 0 /\ clock - cache[i].t <= CORRELATION_WINDOW THEN cache[i].u
         ELSE GuessScan(cache, resource, clock, 1)

(***************************************************************************)
(* Metadata store: oc_filecache is a set of rows [fileid, path],           *)
(* oc_activity a sequence of rows [object_id, file, subjectparams, user],  *)
(* newest first.  Fewer than 20 rows exist, so LIMIT 20 never truncates.   *)
(***************************************************************************)
\* str.lstrip('/')
RECURSIVE lstrip_slash(_)
lstrip_slash(s) ==
    IF Len(s) > 0 /\ s[1] = "/" THEN lstrip_slash(Tail(s)) ELSE s

\* s.split('/')[-1]: what follows the last "/"
RECURSIVE last_segment(_)
last_segment(s) ==
    LET i == Find(s, "/") IN
    IF i = 0 THEN s ELSE last_segment(Slice(s, i + 1, Len(s)))

NoRow == [fileid |-> NoId, path |-> << >>]

\* the rows find_fileid_and_path may return for a path; LIMIT 1 without
\* ORDER BY returns any matching row, the filename fallback the row with
\* the greatest fileid; (None, None) is NoRow
find_fileid_and_path(filecache, path) ==
    IF path = << >> THEN {NoRow}
    ELSE LET p      == lstrip_slash(path)
             exact1 == {r \in filecache : r.path = p}
             exact2 == {r \in filecache : r.path = path}
             fname  == last_segment(p)
             like   == {r \in filecache : Contains(lower(r.path), lower(fname))}
         IN  IF exact1 # {} THEN exact1
             ELSE IF exact2 # {} THEN exact2
             ELSE IF fname # << >> /\ like # {}
                  THEN {r \in like : \A o \in like : o.fileid <= r.fileid}
             ELSE {NoRow}

\* '/' + path unless it already starts with '/'
with_leading_slash(path) ==
    IF path # << >> /\ path[1] # "/" THEN <<"/">> \o path ELSE path

\* SELECT path FROM oc_filecache WHERE fileid = %s LIMIT 1, then the
\* assignment to resolved_path; << >> when there is no row or no path
path_for_fileid(filecache, fid) ==
    LET rows == {r \in filecache : r.fileid = fid} IN
    IF rows = {} THEN << >>
    ELSE with_leading_slash((CHOOSE r \in rows : TRUE).path)

\* str.strip() on an actor name
strip(u) ==
    CASE u = " "      -> ""
      [] u = " alice" -> "alice"
      [] OTHER        -> u

\* first actor, newest first, that is non-empty and not blacklisted
RECURSIVE first_human(_, _)
first_human(rows, i) ==
    IF i > Len(rows) THEN ""
    ELSE IF strip(rows[i].user) # "" /\ strip(rows[i].user) \notin HUMAN_BLACKLIST
         THEN strip(rows[i].user)
    ELSE first_human(rows, i + 1)

\* one of the two query blocks: the first human actor, else the newest
\* actor as stored, else nothing
actor_of(rows) ==
    IF first_human(rows, 1) # "" THEN first_human(rows, 1)
    ELSE IF Len(rows) > 0 THEN rows[1].user
    ELSE ""

find_username_for_fileid_or_path(activity, fileid, path) ==
    LET byId   == SelectSeq(activity, LAMBDA r : r.object_id = fileid)
        byPath == SelectSeq(activity, LAMBDA r :
                      r.file = path \/ Contains(r.subjectparams, path))
    IN  IF Truthy(fileid) /\ Len(byId) > 0 THEN actor_of(byId)
        ELSE IF path # << >> THEN actor_of(byPath)
        ELSE ""

(***************************************************************************)
(* Persistence sink: audit_events is a sequence of records in insertion    *)
(* order.  size, user_agent and referrer are copied from the event         *)
(* unchanged and are left out.                                             *)
(***************************************************************************)
coalesce_username(u) == IF u = "" THEN "(unknown)" ELSE u

\* "" stands for None, which the driver sends as NULL:  ip = NULL  and
\* method = NULL  are not true of any row

\* SimilarRow with a window that excludes its end point
SimilarRow_StrictWindow(r, ts, username, ip, method) ==
    /\ coalesce_username(r.username) = coalesce_username(username)
    /\ ip # "" /\ r.ip = ip
    /\ method # "" /\ r.method = method
    /\ Abs(r.ts - ts) < DEDUPE_SECONDS

SimilarRow(r, ts, username, ip, method) ==
    /\ coalesce_username(r.username) = coalesce_username(username)
    /\ ip # "" /\ r.ip = ip
    /\ method # "" /\ r.method = method
    /\ Abs(r.ts - ts) <= DEDUPE_SECONDS

already_similar(tbl, ts, username, ip, method, resource, object_id) ==
    \/ /\ Truthy(object_id)
       /\ \E i \in 1..Len(tbl) :
              tbl[i].object_id = object_id /\ SimilarRow(tbl[i], ts, username, ip, method)
    \/ \E i \in 1..Len(tbl) :
           tbl[i].resource = resource /\ SimilarRow(tbl[i], ts, username, ip, method)

\* audit_row that stores the raw URL in the column resource as well
audit_row_RawResource(ev, object_id, resolved_path) ==
    LET orig == normalize_resource(ev.resource) IN
    [ts                |-> ev.ts,
     username          |-> ev.username,
     ip                |-> ev.ip,
     method            |-> ev.method,
     original_resource |-> orig,
     resource          |-> orig,
     object_id         |-> object_id,
     status            |-> ev.status,
     raw_line          |-> ev.raw,
     event_type        |-> detect_event_type(IF ev.method = "" THEN "GET" ELSE ev.method,
                                             ev.status, orig)]

\* the row _insert_event_db writes for ev
audit_row(ev, object_id, resolved_path) ==
    LET orig == normalize_resource(ev.resource) IN
    [ts                |-> ev.ts,
     username          |-> ev.username,
     ip                |-> ev.ip,
     method            |-> ev.method,
     original_resource |-> orig,
     resource          |-> IF resolved_path # << >> THEN resolved_path ELSE orig,
     object_id         |-> object_id,
     status            |-> ev.status,
     raw_line          |-> ev.raw,
     event_type        |-> detect_event_type(IF ev.method = "" THEN "GET" ELSE ev.method,
                                             ev.status, orig)]


(***************************************************************************)
(* Inputs of the model                                                     *)
(***************************************************************************)
MaxTicks    == 2    \* advances of the clock
MaxCalls    == 2    \* calls of schedule_resolution_and_insert
MaxWorkers  == 2    \* resolution threads ever started
MaxHints    == 1    \* application-log hints ever recorded
MaxActivity == 1    \* rows ever written to oc_activity

UrlPdf    == <<"/", "remote.php", "/", "dav", "/", "files", "/", "alice", "/", "report", ".pdf">>
UrlDl     == <<"/", "index.php", "/", "apps", "/", "files", "/", "download", "/", "5", "2">>
UrlIgnore == <<"/", "index.php", "/", "apps", "/", "richdocuments", "/", "wopi", "/", "settings">>

\* events as parse_apache_line returns them
AccessEvent(ts, user, ip, method, url, raw) ==
    [ts |-> ts, username |-> user, ip |-> ip, method |-> method,
     resource |-> url, status |-> 200, raw |-> raw]

EvPdf      == AccessEvent(0, "", "10.0.0.1", "GET", UrlPdf, 1)
EvPdfLater == AccessEvent(DEDUPE_SECONDS, "", "10.0.0.1", "GET", UrlPdf, 2)
EvDl       == AccessEvent(0, "", "10.0.0.1", "GET", UrlDl, 3)
EvPropfind == AccessEvent(0, "", "10.0.0.1", "PROPFIND", UrlPdf, 4)
EvIgnore   == AccessEvent(0, "", "10.0.0.1", "GET", UrlIgnore, 5)

\* the lines of the access log: requests for one file, which share a canonical key
EventInputs == {EvPdf, EvPdfLater, EvPropfind, EvIgnore}
\* the same lines and a request of an authenticated user, whose name the
\* access log gives
EvPdfUser  == AccessEvent(0, "carol", "10.0.0.1", "GET", UrlPdf, 6)
LiveInputs == EventInputs \cup {EvPdfUser}
\* a request whose URL has "download" only as a query-parameter key
UrlQueryDownload == <<"/", "remote.php", "/", "dav", "/", "files", "/", "alice", "/",
                      "notes", "?", "download", "=", "1">>
EvQueryDownload  == AccessEvent(0, "carol", "10.0.0.1", "GET", UrlQueryDownload, 7)
KindInputs       == {EvQueryDownload, EvPdfUser}
\* requests that reach one file under two canonical keys
RaceInputs  == {EvPdf, EvDl}

NoEvent == AccessEvent(0, "", "", "", << >>, 0)

\* the dict parse_nextcloud_app_line returns, {"ts", "user", "resource"}, as
\* the worker and _insert_event_db read it with ev.get: the keys username,
\* ip, method, status and raw are absent ("" and 0), the key user is never read
HintEvent(ts, resource) ==
    [ts |-> ts, username |-> "", ip |-> "", method |-> "",
     resource |-> normalize_resource(resource), status |-> 0, raw |-> 0]

\* the lines of the application log present at start-up
AppScanInputs == {HintEvent(0, UrlPdf)}
MaxAppLines   == 1    \* lines of the application log present at start-up

\* hints as parse_nextcloud_app_line returns them: [ts, user, resource]
HintResources == {UrlPdf}
HintUsers     == {"bob"}
\* age of the hint's timestamp when it is read, and whether it has an offset
HintStamps    == { [age |-> 0, aware |-> FALSE],
                   [age |-> CORRELATION_WINDOW, aware |-> FALSE],
                   [age |-> 0, aware |-> TRUE] }
\* the clock advances alternately by the polling interval and by the
\* resolution deadline, so that both a further poll and an expiry occur
TickStep(n)   == IF n % 2 = 0 THEN RESOLVE_INTERVAL ELSE RESOLVE_WAIT

FilecacheRows == { [fileid |-> 52, path |-> <<"files", "/", "alice", "/", "report", ".pdf">>] }
ActivityRows  == { [object_id |-> 52, file |-> << >>, subjectparams |-> << >>, user |-> "alice"] }

KeyOf(ev) == canonical_key_for_resource(normalize_resource(ev.resource))
\* a download request that names file id 0, and a file of the metadata
\* store whose name is "0"
UrlDlZero == <<"/", "index.php", "/", "apps", "/", "files", "/", "download", "/", "0">>
EvDlZero  == AccessEvent(0, "", "10.0.0.1", "GET", UrlDlZero, 8)
IdInputs  == {EvDl, EvDlZero, EvPdf}
IdFilecacheRows == FilecacheRows \cup
                   { [fileid |-> 7, path |-> <<"files", "/", "alice", "/", "0">>] }
KeySet    == {KeyOf(e).key : e \in EventInputs \cup RaceInputs \cup KindInputs \cup IdInputs}
Slots     == 1..MaxWorkers

(***************************************************************************)
(* State                                                                   *)
(***************************************************************************)
VARIABLES
    now,             \* datetime.utcnow(), in seconds
    dbUp,            \* the database accepts connections and statements
    oc_filecache,    \* metadata store: files
    oc_activity,     \* metadata store: activity log
    audit_events,    \* persistence sink
    recent_actions,  \* IdentityCache
    pending,         \* PendingResolutionRegistry: key -> entry
    workers,         \* the resolution threads and their locals
    ingest,          \* the ingestion thread inside schedule_resolution_and_insert
    calls,           \* schedule calls made so far
    hints,           \* hints recorded so far
    ticks,           \* clock advances so far
    app,             \* application of a pure function: [fn, arg, out]
    recent_lock,     \* threading.Lock of recent_actions: the thread holding it
    pending_lock,    \* threading.Lock of pending: the thread holding it
    access_log,      \* the files that are or were at the path ACCESS_LOG
    handler          \* AccessHandler: its open file and read position

vars == <<now, dbUp, oc_filecache, oc_activity, audit_events, recent_actions,
          pending, workers, ingest, calls, hints, ticks, app,
          recent_lock, pending_lock, access_log, handler>>

\* MaxFiles files are ever created at the watched path
MaxFiles == 2
\* no file at the path and no modification to report (dirty names the file
\* whose modification the observer has not reported yet); a handler whose
\* open() failed (self.f = None)
NoLog         == [at_path |-> 0, files |-> [i \in 1..MaxFiles |-> << >>], dirty |-> 0]
ClosedHandler == [f |-> 0, pos |-> 0, start |-> 0, handed |-> {}]

\* a lock nobody holds; a held lock names its holder, a worker's slot or
\* the ingestion thread
Free         == 0
IngestThread == MaxWorkers + 1

NoEntry == [present |-> FALSE, first_seen |-> 0, last_seen |-> 0, thread |-> 0,
            ev |-> NoEvent, object_id |-> NoId]

IdleWorker == [pc |-> "idle", ev |-> NoEvent, key |-> ResourceKey(<< >>), res |-> << >>,
               object_id |-> NoId, resolved_path |-> << >>, deadline |-> 0, wake |-> 0,
               site |-> "", conn_ok |-> FALSE, sink_failed |-> FALSE,
               inserted |-> 0, dup_seen |-> FALSE]

IdleIngest == [pc |-> "idle", ev |-> NoEvent, key |-> ResourceKey(<< >>), fid |-> NoId,
               res |-> << >>]

NoApp == [fn |-> "", arg |-> << >>, out |-> << >>]

Init ==
    /\ now = 0
    /\ dbUp = TRUE
    /\ oc_filecache = {}
    /\ oc_activity = << >>
    /\ audit_events = << >>
    /\ recent_actions = << >>
    /\ pending = [k \in KeySet |-> NoEntry]
    /\ workers = [w \in Slots |-> IdleWorker]
    /\ ingest = IdleIngest
    /\ calls = 0
    /\ hints = 0
    /\ ticks = 0
    /\ app = NoApp
    /\ recent_lock = Free
    /\ pending_lock = Free
    /\ access_log = NoLog
    /\ handler = ClosedHandler


(***************************************************************************)
(* Environment: the clock, the database and the application log            *)
(***************************************************************************)
Tick ==
    /\ ticks < MaxTicks
    /\ ticks' = ticks + 1
    /\ now' = now + TickStep(ticks)
    /\ UNCHANGED <<access_log, handler, recent_lock, pending_lock, dbUp, oc_filecache, oc_activity, audit_events, recent_actions,
                   pending, workers, ingest, calls, hints, app>>

DbToggle ==
    /\ dbUp' = ~dbUp
    /\ UNCHANGED <<access_log, handler, recent_lock, pending_lock, now, oc_filecache, oc_activity, audit_events, recent_actions,
                   pending, workers, ingest, calls, hints, ticks, app>>

StoreFile ==
    /\ \E r \in FilecacheRows \ oc_filecache : oc_filecache' = oc_filecache \cup {r}
    /\ UNCHANGED <<access_log, handler, recent_lock, pending_lock, now, dbUp, oc_activity, audit_events, recent_actions,
                   pending, workers, ingest, calls, hints, ticks, app>>

StoreActivity ==
    /\ Len(oc_activity) < MaxActivity
    /\ \E r \in ActivityRows : oc_activity' = <<r>> \o oc_activity
    /\ UNCHANGED <<access_log, handler, recent_lock, pending_lock, now, dbUp, oc_filecache, audit_events, recent_actions,
                   pending, workers, ingest, calls, hints, ticks, app>>

\* AppHandler.on_modified for one parsed line
AppLogHint ==
    /\ hints < MaxHints
    /\ hints' = hints + 1
    /\ \E r \in HintResources, u \in HintUsers, st \in HintStamps :
           recent_actions' = add_recent_action(recent_actions, r, u, now - st.age, st.aware, now)
    /\ UNCHANGED <<access_log, handler, recent_lock, pending_lock, now, dbUp, oc_filecache, oc_activity, audit_events,
                   pending, workers, ingest, calls, ticks, app>>

(***************************************************************************)
(* schedule_resolution_and_insert, run by the ingestion thread             *)
(***************************************************************************)
FreeSlots == {w \in Slots : workers[w].pc = "idle"}

\* Schedule without the test  key in pending
Schedule_NoPendingCheck(lines) ==
    /\ ingest.pc = "idle"
    /\ calls < MaxCalls
    /\ calls' = calls + 1
    /\ \E ev \in lines :
         LET res == normalize_resource(ev.resource)
             ck  == canonical_key_for_resource(res)
         IN  IF \E ign \in IGNORE_PATTERNS : Contains(res, ign)
             THEN UNCHANGED <<pending, ingest>>
             ELSE /\ FreeSlots # {}
                  /\ pending' = [pending EXCEPT ![ck.key] =
                         [present |-> TRUE, first_seen |-> now, last_seen |-> now,
                          thread |-> 0, ev |-> ev, object_id |-> ck.fid]]
                  /\ ingest' = [pc |-> "start", ev |-> ev, key |-> ck.key,
                                fid |-> ck.fid, res |-> res]
    /\ UNCHANGED <<access_log, handler, recent_lock, pending_lock, now, dbUp, oc_filecache, oc_activity, audit_events, recent_actions,
                   workers, hints, ticks, app>>

\* Schedule that stores the newest event of a pending key in its entry
Schedule_MergeEvent(lines) ==
    /\ ingest.pc = "idle"
    /\ calls < MaxCalls
    /\ calls' = calls + 1
    /\ \E ev \in lines :
         LET res == normalize_resource(ev.resource)
             ck  == canonical_key_for_resource(res)
         IN  IF \E ign \in IGNORE_PATTERNS : Contains(res, ign)
             THEN UNCHANGED <<pending, ingest>>
             ELSE IF pending[ck.key].present
             THEN /\ pending' = [pending EXCEPT ![ck.key].last_seen = now,
                                                ![ck.key].ev = ev]
                  /\ UNCHANGED ingest
             ELSE /\ FreeSlots # {}
                  /\ pending' = [pending EXCEPT ![ck.key] =
                         [present |-> TRUE, first_seen |-> now, last_seen |-> now,
                          thread |-> 0, ev |-> ev, object_id |-> ck.fid]]
                  /\ ingest' = [pc |-> "start", ev |-> ev, key |-> ck.key,
                                fid |-> ck.fid, res |-> res]
    /\ UNCHANGED <<access_log, handler, recent_lock, pending_lock, now, dbUp, oc_filecache, oc_activity,
                   audit_events, recent_actions, workers, hints, ticks, app>>

\* lines 312-322: ignore filter, canonical key, first locked section
Schedule(lines) ==
    /\ ingest.pc = "idle"
    /\ calls < MaxCalls
    /\ calls' = calls + 1
    /\ \E ev \in lines :
         LET res == normalize_resource(ev.resource)
             ck  == canonical_key_for_resource(res)
         IN  IF \E ign \in IGNORE_PATTERNS : Contains(res, ign)
             THEN UNCHANGED <<pending, ingest>>
             ELSE IF pending[ck.key].present
             THEN /\ pending' = [pending EXCEPT ![ck.key].last_seen = now]
                  /\ UNCHANGED ingest
             ELSE /\ FreeSlots # {}
                  /\ pending' = [pending EXCEPT ![ck.key] =
                         [present |-> TRUE, first_seen |-> now, last_seen |-> now,
                          thread |-> 0, ev |-> ev, object_id |-> ck.fid]]
                  /\ ingest' = [pc |-> "start", ev |-> ev, key |-> ck.key,
                                fid |-> ck.fid, res |-> res]
    /\ UNCHANGED <<access_log, handler, recent_lock, pending_lock, now, dbUp, oc_filecache, oc_activity, audit_events, recent_actions,
                   workers, hints, ticks, app>>

\* lines 387-390: create the thread, record it in the entry, start it
StartThread ==
    /\ ingest.pc = "start"
    /\ LET w == CHOOSE s \in FreeSlots : \A o \in FreeSlots : s <= o IN
         /\ pending' = [pending EXCEPT ![ingest.key].thread = w]
         /\ workers' = [workers EXCEPT ![w] =
                [IdleWorker EXCEPT !.pc = "begin", !.ev = ingest.ev, !.key = ingest.key,
                                   !.res = ingest.res, !.object_id = ingest.fid]]
    /\ ingest' = IdleIngest
    /\ UNCHANGED <<access_log, handler, recent_lock, pending_lock, now, dbUp, oc_filecache, oc_activity, audit_events, recent_actions,
                   calls, hints, ticks, app>>


(***************************************************************************)
(* The ResolutionWorker thread (the nested function worker)                *)
(***************************************************************************)
WorkerFrame == <<access_log, handler, recent_lock, pending_lock, now, dbUp, oc_filecache, oc_activity, recent_actions,
                 ingest, calls, hints, ticks, app>>

\* early_or_sleep for a worker that attempts to persist in every iteration
early_or_sleep_Always(wr, clock) ==
    [wr EXCEPT !.pc = "check", !.site = "early"]

\* line 362 and below: a persist attempt if a username is known, else the
\* sleep at the end of the iteration
early_or_sleep(wr, clock) ==
    IF wr.ev.username # ""
    THEN [wr EXCEPT !.pc = "check", !.site = "early"]
    ELSE [wr EXCEPT !.pc = "loop", !.wake = clock + RESOLVE_INTERVAL]

\* insert_returned_false for a worker that retries after the deadline
\* until the record is persisted
insert_returned_false_Retry(wr, clock) ==
    CASE wr.site = "db"    -> early_or_sleep(wr, clock)
      [] wr.site = "early" -> [wr EXCEPT !.pc = "loop", !.wake = clock + RESOLVE_INTERVAL]
      [] wr.site = "final" -> [wr EXCEPT !.pc = "loop", !.wake = clock + RESOLVE_INTERVAL]

\* where the worker continues when _insert_event_db returns False
insert_returned_false(wr, clock) ==
    CASE wr.site = "db"    -> early_or_sleep(wr, clock)
      [] wr.site = "early" -> [wr EXCEPT !.pc = "loop", !.wake = clock + RESOLVE_INTERVAL]
      [] wr.site = "final" -> [wr EXCEPT !.pc = "pop"]

\* a thread that has returned: its locals are gone, what it did remains
ThreadEnded(wr) ==
    [IdleWorker EXCEPT !.pc = "done", !.inserted = wr.inserted, !.dup_seen = wr.dup_seen]

\* lines 325-328
W_Begin(w) ==
    /\ workers[w].pc = "begin"
    /\ workers' = [workers EXCEPT ![w].pc = "loop",
                                  ![w].deadline = now + RESOLVE_WAIT,
                                  ![w].wake = now]
    /\ UNCHANGED <<WorkerFrame, pending, audit_events>>

\* line 329, reached at the start and after each time.sleep(RESOLVE_INTERVAL)
W_Loop(w) ==
    /\ workers[w].pc = "loop"
    /\ now >= workers[w].wake
    /\ workers' = [workers EXCEPT ![w].pc =
           IF now <= workers[w].deadline THEN "guess" ELSE "final_guess"]
    /\ UNCHANGED <<WorkerFrame, pending, audit_events>>

\* lines 330-332; a TypeError raised by guess_username leaves the function
\* through the finally clause
W_Guess(w) ==
    /\ workers[w].pc = "guess"
    /\ LET gu == guess_username(recent_actions, workers[w].res, now) IN
         workers' = [workers EXCEPT
             ![w].pc = IF gu = TypeError THEN "pop" ELSE "resolve",
             ![w].ev.username = IF gu # "" /\ gu # TypeError THEN gu ELSE @]
    /\ UNCHANGED <<WorkerFrame, pending, audit_events>>

\* lines 333-360 up to the call of _insert_event_db: a failed connection
\* raises into the except clause of line 359
W_Resolve(w) ==
    /\ workers[w].pc = "resolve"
    /\ LET wr == workers[w] IN
       IF ~dbUp
       THEN workers' = [workers EXCEPT ![w] = early_or_sleep(wr, now)]
       ELSE \E row \in find_fileid_and_path(oc_filecache, wr.res) :
              LET oid   == IF ~Truthy(wr.object_id) /\ Truthy(row.fileid)
                           THEN row.fileid ELSE wr.object_id
                  rp    == IF ~Truthy(wr.object_id)
                           THEN (IF Truthy(row.fileid)
                                 THEN with_leading_slash(row.path)
                                 ELSE wr.resolved_path)
                           ELSE (IF wr.resolved_path = << >>
                                 THEN path_for_fileid(oc_filecache, wr.object_id)
                                 ELSE wr.resolved_path)
                  uname == find_username_for_fileid_or_path(oc_activity, oid, wr.res)
                  wr2   == [wr EXCEPT !.object_id = oid, !.resolved_path = rp]
              IN  workers' = [workers EXCEPT ![w] =
                      IF uname # ""
                      THEN [wr2 EXCEPT !.ev.username = uname, !.pc = "check", !.site = "db"]
                      ELSE early_or_sleep(wr2, now)]
    /\ UNCHANGED <<WorkerFrame, pending, audit_events>>

\* W_Check without the PROPFIND filter of line 230
W_Check_NoPropfindFilter(w) ==
    /\ workers[w].pc = "check"
    /\ LET wr  == workers[w]
           row == audit_row(wr.ev, wr.object_id, wr.resolved_path)
       IN  IF ~dbUp
           THEN workers' = [workers EXCEPT ![w] =
                    insert_returned_false([wr EXCEPT !.sink_failed = TRUE], now)]
           ELSE \E query_ok \in BOOLEAN :
                  IF query_ok /\ already_similar(audit_events, row.ts, row.username, row.ip,
                                                 row.method, row.resource, wr.object_id)
                  THEN workers' = [workers EXCEPT ![w] =
                           insert_returned_false([wr EXCEPT !.dup_seen = TRUE], now)]
                  ELSE workers' = [workers EXCEPT ![w].pc = "insert",
                                                  ![w].conn_ok = query_ok]
    /\ UNCHANGED <<WorkerFrame, pending, audit_events>>

\* W_Check with an already_similar that answers True when its query fails
W_Check_FailClosed(w) ==
    /\ workers[w].pc = "check"
    /\ LET wr  == workers[w]
           row == audit_row(wr.ev, wr.object_id, wr.resolved_path)
       IN  IF upper(wr.ev.method) = "PROPFIND"
           THEN workers' = [workers EXCEPT ![w] = insert_returned_false(wr, now)]
           ELSE IF ~dbUp
           THEN workers' = [workers EXCEPT ![w] =
                    insert_returned_false([wr EXCEPT !.sink_failed = TRUE], now)]
           ELSE \E query_ok \in BOOLEAN :
                  IF ~query_ok \/ already_similar(audit_events, row.ts, row.username, row.ip,
                                                  row.method, row.resource, wr.object_id)
                  THEN workers' = [workers EXCEPT ![w] =
                           insert_returned_false([wr EXCEPT !.dup_seen = TRUE], now)]
                  ELSE workers' = [workers EXCEPT ![w].pc = "insert",
                                                  ![w].conn_ok = query_ok]
    /\ UNCHANGED <<WorkerFrame, pending, audit_events>>

\* _insert_event_db, lines 228-235: PROPFIND filter, connection, dedupe
\* check.  A failing dedupe query makes already_similar answer False and
\* leaves the connection unusable for the statement that follows.
\* sink_failed records that a persist attempt of this worker ended in the
\* except clause of line 258.
W_Check(w) ==
    /\ workers[w].pc = "check"
    /\ LET wr  == workers[w]
           row == audit_row(wr.ev, wr.object_id, wr.resolved_path)
       IN  IF upper(wr.ev.method) = "PROPFIND"
           THEN workers' = [workers EXCEPT ![w] = insert_returned_false(wr, now)]
           ELSE IF ~dbUp
           THEN workers' = [workers EXCEPT ![w] =
                    insert_returned_false([wr EXCEPT !.sink_failed = TRUE], now)]
           ELSE \E query_ok \in BOOLEAN :
                  IF query_ok /\ already_similar(audit_events, row.ts, row.username, row.ip,
                                                 row.method, row.resource, wr.object_id)
                  THEN workers' = [workers EXCEPT ![w] =
                           insert_returned_false([wr EXCEPT !.dup_seen = TRUE], now)]
                  ELSE workers' = [workers EXCEPT ![w].pc = "insert",
                                                  ![w].conn_ok = query_ok]
    /\ UNCHANGED <<WorkerFrame, pending, audit_events>>

\* _insert_event_db, lines 236-261: INSERT and commit
W_Insert(w) ==
    /\ workers[w].pc = "insert"
    /\ LET wr == workers[w] IN
       IF wr.conn_ok /\ dbUp
       THEN /\ audit_events' = Append(audit_events,
                                      audit_row(wr.ev, wr.object_id, wr.resolved_path))
            /\ workers' = [workers EXCEPT ![w].pc = "pop", ![w].inserted = @ + 1]
       ELSE /\ workers' = [workers EXCEPT ![w] =
                    insert_returned_false([wr EXCEPT !.sink_failed = TRUE], now)]
            /\ UNCHANGED audit_events
    /\ UNCHANGED <<WorkerFrame, pending>>

\* lines 367-381, after the deadline: the final guess, then a last path
\* lookup when a file id is known without its path (errors swallowed).
\* Both only read shared state the worker does not write, so they are one
\* step.
W_Final(w) ==
    /\ workers[w].pc = "final_guess"
    /\ LET wr     == workers[w]
           gu     == guess_username(recent_actions, wr.res, now)
           lookup == wr.resolved_path = << >> /\ Truthy(wr.object_id) /\ dbUp
       IN  workers' = [workers EXCEPT
               ![w].ev.username = IF gu # "" /\ gu # TypeError THEN gu ELSE @,
               ![w].site = "final",
               ![w].resolved_path = IF gu # TypeError /\ lookup
                                    THEN path_for_fileid(oc_filecache, wr.object_id)
                                    ELSE @,
               ![w].pc = IF gu = TypeError THEN "pop" ELSE "check"]
    /\ UNCHANGED <<WorkerFrame, pending, audit_events>>

\* W_Pop as it would be without the finally clause: the entry is removed
\* only after a successful persist
W_Pop_OnSuccessOnly(w) ==
    /\ workers[w].pc = "pop"
    /\ pending' = IF workers[w].inserted > 0
                  THEN [pending EXCEPT ![workers[w].key] = NoEntry]
                  ELSE pending
    /\ workers' = [workers EXCEPT ![w] = ThreadEnded(workers[w])]
    /\ UNCHANGED <<WorkerFrame, audit_events>>

\* lines 384-386: finally: pending.pop(key, None)
W_Pop(w) ==
    /\ workers[w].pc = "pop"
    /\ pending' = [pending EXCEPT ![workers[w].key] = NoEntry]
    /\ workers' = [workers EXCEPT ![w] = ThreadEnded(workers[w])]
    /\ UNCHANGED <<WorkerFrame, audit_events>>

Worker(w) ==
    \/ W_Begin(w) \/ W_Loop(w) \/ W_Guess(w) \/ W_Resolve(w) \/ W_Check(w)
    \/ W_Insert(w) \/ W_Final(w) \/ W_Pop(w)

Next ==
    \/ Tick
    \/ DbToggle
    \/ StoreFile
    \/ StoreActivity
    \/ AppLogHint
    \/ Schedule(EventInputs)
    \/ StartThread
    \/ \E w \in Slots : Worker(w)

Spec == Init /\ [][Next]_vars


(***************************************************************************)
(* Two requests for one file under two canonical keys: the store already   *)
(* knows the file and its last actor                                       *)
(***************************************************************************)
InitRace ==
    /\ now = 0
    /\ dbUp = TRUE
    /\ oc_filecache = FilecacheRows
    /\ oc_activity \in {<<r>> : r \in ActivityRows}
    /\ audit_events = << >>
    /\ recent_actions = << >>
    /\ pending = [k \in KeySet |-> NoEntry]
    /\ workers = [w \in Slots |-> IdleWorker]
    /\ ingest = IdleIngest
    /\ calls = 0
    /\ hints = 0
    /\ ticks = 0
    /\ app = NoApp
    /\ recent_lock = Free
    /\ pending_lock = Free
    /\ access_log = NoLog
    /\ handler = ClosedHandler

NextRace ==
    \/ Tick
    \/ DbToggle
    \/ Schedule(RaceInputs)
    \/ StartThread
    \/ \E w \in Slots : Worker(w)

SpecRace == InitRace /\ [][NextRace]_vars


(***************************************************************************)
(* The program at the grain of its locks: every  with recent_lock  and     *)
(* with pending_lock  block is an acquire step, which waits until the lock *)
(* is free, and a step for the block's body, which ends by releasing the   *)
(* lock (also when the body raises).  The statements between the blocks    *)
(* are the steps of the specification Spec.                                *)
(***************************************************************************)
LockFrame == <<access_log, handler, now, dbUp, oc_filecache, oc_activity, audit_events, calls, hints, ticks, app>>

\* lines 312-317: ignore filter and canonical key; the caller then waits at
\* line 318 for pending_lock
Schedule_Enter(lines) ==
    /\ ingest.pc = "idle"
    /\ calls < MaxCalls
    /\ calls' = calls + 1
    /\ \E ev \in lines :
         LET res == normalize_resource(ev.resource)
             ck  == canonical_key_for_resource(res)
         IN  IF \E ign \in IGNORE_PATTERNS : Contains(res, ign)
             THEN UNCHANGED ingest
             ELSE /\ FreeSlots # {}
                  /\ ingest' = [pc |-> "register", ev |-> ev, key |-> ck.key,
                                fid |-> ck.fid, res |-> res]
    /\ UNCHANGED <<access_log, handler, now, dbUp, oc_filecache, oc_activity, audit_events, recent_actions,
                   pending, workers, hints, ticks, app, recent_lock, pending_lock>>

\* line 318: with pending_lock
Schedule_Acquire ==
    /\ ingest.pc = "register"
    /\ pending_lock = Free
    /\ pending_lock' = IngestThread
    /\ ingest' = [ingest EXCEPT !.pc = "registering"]
    /\ UNCHANGED <<LockFrame, recent_actions, pending, workers, recent_lock>>

\* lines 319-322 and the end of the with block
Schedule_Locked ==
    /\ ingest.pc = "registering"
    /\ IF pending[ingest.key].present
       THEN /\ pending' = [pending EXCEPT ![ingest.key].last_seen = now]
            /\ ingest' = IdleIngest
       ELSE /\ pending' = [pending EXCEPT ![ingest.key] =
                   [present |-> TRUE, first_seen |-> now, last_seen |-> now,
                    thread |-> 0, ev |-> ingest.ev, object_id |-> ingest.fid]]
            /\ ingest' = [ingest EXCEPT !.pc = "start"]
    /\ pending_lock' = Free
    /\ UNCHANGED <<LockFrame, recent_actions, workers, recent_lock>>

\* lines 387-388: the thread object is created, with pending_lock
Start_Acquire ==
    /\ ingest.pc = "start"
    /\ pending_lock = Free
    /\ pending_lock' = IngestThread
    /\ ingest' = [ingest EXCEPT !.pc = "starting"]
    /\ UNCHANGED <<LockFrame, recent_actions, pending, workers, recent_lock>>

\* lines 389-390: the thread is recorded in the entry, the lock released
\* and the thread started
Start_Locked ==
    /\ ingest.pc = "starting"
    /\ LET w == CHOOSE s \in FreeSlots : \A o \in FreeSlots : s <= o IN
         /\ pending' = [pending EXCEPT ![ingest.key].thread = w]
         /\ workers' = [workers EXCEPT ![w] =
                [IdleWorker EXCEPT !.pc = "begin", !.ev = ingest.ev, !.key = ingest.key,
                                   !.res = ingest.res, !.object_id = ingest.fid]]
    /\ ingest' = IdleIngest
    /\ pending_lock' = Free
    /\ UNCHANGED <<LockFrame, recent_actions, recent_lock>>

\* AppHandler.on_modified calls add_recent_action and waits at line 269
Hint_Enter ==
    /\ ingest.pc = "idle"
    /\ hints < MaxHints
    /\ hints' = hints + 1
    /\ ingest' = [ingest EXCEPT !.pc = "hint"]
    /\ UNCHANGED <<access_log, handler, now, dbUp, oc_filecache, oc_activity, audit_events, recent_actions,
                   pending, workers, calls, ticks, app, recent_lock, pending_lock>>

\* line 269: with recent_lock
Hint_Acquire ==
    /\ ingest.pc = "hint"
    /\ recent_lock = Free
    /\ recent_lock' = IngestThread
    /\ ingest' = [ingest EXCEPT !.pc = "hinting"]
    /\ UNCHANGED <<LockFrame, recent_actions, pending, workers, pending_lock>>

\* lines 270-274 and the end of the with block, also left by the TypeError
\* of the pruning loop
Hint_Locked ==
    /\ ingest.pc = "hinting"
    /\ \E r \in HintResources, u \in HintUsers, st \in HintStamps :
           recent_actions' = add_recent_action(recent_actions, r, u, now - st.age, st.aware, now)
    /\ ingest' = IdleIngest
    /\ recent_lock' = Free
    /\ UNCHANGED <<LockFrame, pending, workers, pending_lock>>

\* line 279, in the loop (line 330) and after it (line 368): with recent_lock
Guess_Acquire(w) ==
    /\ workers[w].pc \in {"guess", "final_guess"}
    /\ recent_lock = Free
    /\ recent_lock' = w
    /\ workers' = [workers EXCEPT ![w].pc =
           IF workers[w].pc = "guess" THEN "guessing" ELSE "final_guessing"]
    /\ UNCHANGED <<LockFrame, recent_actions, pending, ingest, pending_lock>>

\* Guess_Locked for a guess_username that returns without releasing
\* recent_lock
Guess_Locked_KeepsLock(w) ==
    /\ workers[w].pc = "guessing"
    /\ LET gu == guess_username(recent_actions, workers[w].res, now) IN
         workers' = [workers EXCEPT
             ![w].pc = IF gu = TypeError THEN "pop" ELSE "resolve",
             ![w].ev.username = IF gu # "" /\ gu # TypeError THEN gu ELSE @]
    /\ UNCHANGED <<LockFrame, recent_actions, pending, ingest, pending_lock, recent_lock>>

\* lines 280-289 and the end of the with block, then lines 331-332
Guess_Locked(w) ==
    /\ workers[w].pc = "guessing"
    /\ LET gu == guess_username(recent_actions, workers[w].res, now) IN
         workers' = [workers EXCEPT
             ![w].pc = IF gu = TypeError THEN "pop" ELSE "resolve",
             ![w].ev.username = IF gu # "" /\ gu # TypeError THEN gu ELSE @]
    /\ recent_lock' = Free
    /\ UNCHANGED <<LockFrame, recent_actions, pending, ingest, pending_lock>>

\* FinalGuess_Locked for a worker that keeps recent_lock during the last
\* path lookup and the final persist attempt
FinalGuess_Locked_HoldsLock(w) ==
    /\ workers[w].pc = "final_guessing"
    /\ LET gu == guess_username(recent_actions, workers[w].res, now) IN
         workers' = [workers EXCEPT
             ![w].pc = IF gu = TypeError THEN "pop" ELSE "final_path",
             ![w].ev.username = IF gu # "" /\ gu # TypeError THEN gu ELSE @,
             ![w].site = "final"]
    /\ UNCHANGED <<LockFrame, recent_actions, pending, ingest, pending_lock, recent_lock>>

\* lines 280-289 and the end of the with block, then lines 369-370
FinalGuess_Locked(w) ==
    /\ workers[w].pc = "final_guessing"
    /\ LET gu == guess_username(recent_actions, workers[w].res, now) IN
         workers' = [workers EXCEPT
             ![w].pc = IF gu = TypeError THEN "pop" ELSE "final_path",
             ![w].ev.username = IF gu # "" /\ gu # TypeError THEN gu ELSE @,
             ![w].site = "final"]
    /\ recent_lock' = Free
    /\ UNCHANGED <<LockFrame, recent_actions, pending, ingest, pending_lock>>

\* lines 371-381: the last path lookup
Final_Path(w) ==
    /\ workers[w].pc = "final_path"
    /\ LET wr == workers[w] IN
         workers' = [workers EXCEPT
             ![w].resolved_path =
                  IF wr.resolved_path = << >> /\ Truthy(wr.object_id) /\ dbUp
                  THEN path_for_fileid(oc_filecache, wr.object_id) ELSE @,
             ![w].pc = "check"]
    /\ UNCHANGED <<WorkerFrame, pending, audit_events>>

\* line 385: with pending_lock
Pop_Acquire(w) ==
    /\ workers[w].pc = "pop"
    /\ pending_lock = Free
    /\ pending_lock' = w
    /\ workers' = [workers EXCEPT ![w].pc = "popping"]
    /\ UNCHANGED <<LockFrame, recent_actions, pending, ingest, recent_lock>>

\* line 386 and the end of the with block; the thread ends
Pop_Locked(w) ==
    /\ workers[w].pc = "popping"
    /\ pending' = [pending EXCEPT ![workers[w].key] = NoEntry]
    /\ workers' = [workers EXCEPT ![w] = ThreadEnded(workers[w])]
    /\ pending_lock' = Free
    /\ UNCHANGED <<LockFrame, recent_actions, ingest, recent_lock>>

WorkerLocks(w) ==
    \/ W_Begin(w)
    \/ W_Loop(w)
    \/ Guess_Acquire(w)
    \/ Guess_Locked(w)
    \/ W_Resolve(w)
    \/ W_Check(w)
    \/ W_Insert(w)
    \/ FinalGuess_Locked(w)
    \/ Final_Path(w)
    \/ Pop_Acquire(w)
    \/ Pop_Locked(w)

NextLocks ==
    \/ Tick
    \/ DbToggle
    \/ StoreFile
    \/ StoreActivity
    \/ Schedule_Enter(EventInputs)
    \/ Schedule_Acquire
    \/ Schedule_Locked
    \/ Start_Acquire
    \/ Start_Locked
    \/ Hint_Enter
    \/ Hint_Acquire
    \/ Hint_Locked
    \/ \E w \in Slots : WorkerLocks(w)

SpecLocks == Init /\ [][NextLocks]_vars


\* the scheduler keeps running the ingestion thread, and every worker that
\* is inside a with block; nothing is assumed of the clock, of sleeping
\* workers or of workers that wait for the database
SpecLocksFair ==
    /\ Init
    /\ [][NextLocks]_vars
    /\ WF_vars(Schedule_Acquire)
    /\ WF_vars(Schedule_Locked)
    /\ WF_vars(Start_Acquire)
    /\ WF_vars(Start_Locked)
    /\ \A w \in Slots : WF_vars(Guess_Locked(w))
    /\ \A w \in Slots : WF_vars(FinalGuess_Locked(w))
    /\ \A w \in Slots : WF_vars(Pop_Locked(w))

(***************************************************************************)
(* The program with a clock that keeps advancing and threads that keep     *)
(* being scheduled: time.sleep(RESOLVE_INTERVAL) returns once the clock    *)
(* has reached the wake-up time, and a thread that can take a step         *)
(* eventually takes it                                                     *)
(***************************************************************************)
\* the thread of slot w has been created and has not ended
InFlight(w) == workers[w].pc \notin {"idle", "done"}

Sleeping(w) == workers[w].pc = "loop" /\ now < workers[w].wake

\* time passes until the first sleeping worker is due
ClockAdvance ==
    /\ \E w \in Slots : Sleeping(w)
    /\ now' = CHOOSE t \in {workers[w].wake : w \in {x \in Slots : Sleeping(x)}} :
                  \A w \in Slots : Sleeping(w) => t <= workers[w].wake
    /\ UNCHANGED <<access_log, handler, recent_lock, pending_lock, dbUp, oc_filecache, oc_activity, audit_events, recent_actions,
                   pending, workers, ingest, calls, hints, ticks, app>>

\* the state after the access log delivered lines that the ignore filter
\* dropped: one schedule call is still to come
InitLive ==
    /\ now = 0
    /\ dbUp = TRUE
    /\ oc_filecache = {}
    /\ oc_activity = << >>
    /\ audit_events = << >>
    /\ recent_actions = << >>
    /\ pending = [k \in KeySet |-> NoEntry]
    /\ workers = [w \in Slots |-> IdleWorker]
    /\ ingest = IdleIngest
    /\ calls = MaxCalls - 1
    /\ hints = 0
    /\ ticks = 0
    /\ app = NoApp
    /\ recent_lock = Free
    /\ pending_lock = Free
    /\ access_log = NoLog
    /\ handler = ClosedHandler

NextLive ==
    \/ ClockAdvance
    \/ DbToggle
    \/ StoreFile
    \/ StoreActivity
    \/ AppLogHint
    \/ Schedule(LiveInputs)
    \/ StartThread
    \/ \E w \in Slots : Worker(w)

\* worker w can take a step: it has been started, has not ended and is
\* not inside time.sleep; every position of the thread has a step, and
\* every step changes its position or its wake-up time
Runnable(w) == InFlight(w) /\ ~Sleeping(w)

\* weak fairness of Worker(w), with ENABLED <<Worker(w)>>_vars written as
\* Runnable(w) and a step of Worker(w) recognised by its effect on the
\* thread's record, which no other action changes while the thread runs
FairWorker(w) ==
    []<>(~Runnable(w)) \/ []<><<workers'[w] # workers[w]>>_vars

\* the program reading access-log lines that differ in how their event
\* kind is decided
NextKind ==
    \/ ClockAdvance
    \/ DbToggle
    \/ StoreFile
    \/ StoreActivity
    \/ AppLogHint
    \/ Schedule(KindInputs)
    \/ StartThread
    \/ \E w \in Slots : Worker(w)

SpecKind == InitLive /\ [][NextKind]_vars

\* main, lines 511-516: the start-up scan of the application log hands every
\* parsed line to schedule_resolution_and_insert
ScanAppLog ==
    /\ calls < MaxAppLines
    /\ Schedule(AppScanInputs)

\* main, line 517, and AccessHandler.on_modified afterwards
ScanAccessLog == Schedule(EventInputs)

\* AppHandler.on_modified, registered after both scans
LiveAppLogHint ==
    /\ calls >= MaxAppLines
    /\ AppLogHint

NextBoot ==
    \/ Tick
    \/ DbToggle
    \/ StoreFile
    \/ StoreActivity
    \/ ScanAppLog
    \/ ScanAccessLog
    \/ LiveAppLogHint
    \/ StartThread
    \/ \E w \in Slots : Worker(w)

SpecBoot == Init /\ [][NextBoot]_vars

SpecLive ==
    /\ InitLive
    /\ [][NextLive]_vars
    /\ WF_vars(ClockAdvance)
    /\ \A w \in Slots : FairWorker(w)


(***************************************************************************)
(* The IdentityCache on its own: hints from the application log, the       *)
(* clock, and lookups                                                      *)
(***************************************************************************)
MaxCacheHints == 2

ShortPath  == <<"/", "alice", "/", "report", ".pdf">>
OtherPath  == <<"/", "q">>
CacheKeys  == {UrlPdf, ShortPath}
CacheUsers == {"alice", "bob", ""}
CacheStamps ==
    { [age |-> a, aware |-> FALSE] : a \in {-1, 0, CORRELATION_WINDOW, CORRELATION_WINDOW + 1} }
    \cup { [age |-> 0, aware |-> TRUE] }
LookupResources == {UrlPdf, ShortPath, OtherPath}

\* add_recent_action(resource, user, ts) for one parsed hint
CacheHint ==
    /\ hints < MaxCacheHints
    /\ hints' = hints + 1
    /\ \E r \in CacheKeys, u \in CacheUsers, st \in CacheStamps :
         /\ recent_actions' =
                add_recent_action(recent_actions, r, u, now - st.age, st.aware, now)
         /\ app' = [fn  |-> "add_recent_action",
                    arg |-> [resource |-> r, user |-> u, ts |-> now - st.age,
                             aware |-> st.aware, at |-> now],
                    out |-> << >>]
    /\ UNCHANGED <<access_log, handler, recent_lock, pending_lock, now, dbUp, oc_filecache, oc_activity, audit_events,
                   pending, workers, ingest, calls, ticks>>

\* guess_username(resource)
CacheLookup ==
    /\ \E r \in LookupResources :
         app' = [fn  |-> "guess_username",
                 arg |-> [resource |-> r, cache |-> recent_actions, at |-> now],
                 out |-> guess_username(recent_actions, r, now)]
    /\ UNCHANGED <<access_log, handler, recent_lock, pending_lock, now, dbUp, oc_filecache, oc_activity, audit_events, recent_actions,
                   pending, workers, ingest, calls, hints, ticks>>

NextCache ==
    \/ Tick
    \/ CacheHint
    \/ CacheLookup

SpecCache == Init /\ [][NextCache]_vars

(***************************************************************************)
(* The pure functions applied to URLs built from a few segments            *)
(***************************************************************************)
MaxSegs == 2

PureSegs ==
    { <<"/", "q">>,
      <<"/">>,
      <<"/", "download", "/", "5">>,
      <<"/", "Download">>,
      <<"/", "wopi", "/", "files", "/", "3", "_", "q">>,
      <<"/", "fileId", "=", "2">>,
      <<"?", "fileId", "=", "2">>,
      <<"?", "download", "=">>,
      <<"?", "download", "=", "2">>,
      <<"&", "q", "=", "2">>,
      <<".pdf">>,
      <<"%", "3", "F">>,
      <<"%", "2", "5">>,
      <<"2", "F">> }

RECURSIVE UrlsOf(_)
UrlsOf(n) ==
    IF n = 0 THEN {<< >>}
    ELSE UrlsOf(n - 1) \cup {u \o g : u \in UrlsOf(n - 1), g \in PureSegs}

PureUrls     == UrlsOf(MaxSegs)
PureMethods  == {"GET", "PROPFIND", "POST", "get"}
PureStatuses == {200, 404}

PureFrame == <<access_log, handler, recent_lock, pending_lock, now, dbUp, oc_filecache, oc_activity, audit_events, recent_actions,
               pending, workers, ingest, calls, hints, ticks>>

\* the URL to work on is drawn first, then one function is applied to it
InitPure ==
    /\ now = 0
    /\ dbUp = TRUE
    /\ oc_filecache = {}
    /\ oc_activity = << >>
    /\ audit_events = << >>
    /\ recent_actions = << >>
    /\ pending = [k \in KeySet |-> NoEntry]
    /\ workers = [w \in Slots |-> IdleWorker]
    /\ ingest = IdleIngest
    /\ calls = 0
    /\ hints = 0
    /\ ticks = 0
    /\ app \in {[fn |-> "input", arg |-> x, out |-> << >>] : x \in PureUrls}
    /\ recent_lock = Free
    /\ pending_lock = Free
    /\ access_log = NoLog
    /\ handler = ClosedHandler

ApplyNormalize ==
    /\ app.fn = "input"
    /\ app' = [fn |-> "normalize_resource", arg |-> app.arg,
               out |-> normalize_resource(app.arg)]
    /\ UNCHANGED PureFrame

ApplyCanonicalKey ==
    /\ app.fn = "input"
    /\ app' = [fn |-> "canonical_key_for_resource", arg |-> app.arg,
               out |-> canonical_key_for_resource(app.arg)]
    /\ UNCHANGED PureFrame

ApplyDetect ==
    /\ app.fn = "input"
    /\ \E m \in PureMethods, st \in PureStatuses :
         app' = [fn |-> "detect_event_type",
                 arg |-> [method |-> m, status |-> st, resource |-> app.arg],
                 out |-> detect_event_type(m, st, app.arg)]
    /\ UNCHANGED PureFrame

NextPure ==
    \/ ApplyNormalize
    \/ ApplyCanonicalKey
    \/ ApplyDetect

SpecPure == InitPure /\ [][NextPure]_vars


(***************************************************************************)
(* Tailing the access log: AccessHandler (AppHandler has the same code).   *)
(* A file is the sequence of the lines written to it, a line is its        *)
(* number; the handler holds a file, not a path, so a file that was        *)
(* replaced at the path can still be read.  The lines the handler parses   *)
(* are handed to schedule_resolution_and_insert, whose steps are those of  *)
(* the specification Spec.                                                 *)
(***************************************************************************)
MaxLines == 4    \* lines ever written to the log

TailFrame == <<now, dbUp, oc_filecache, oc_activity, audit_events, recent_actions,
               pending, workers, ingest, calls, hints, ticks, app,
               recent_lock, pending_lock>>

\* the lines written so far, to any of the files
LinesWritten(log) ==
    UNION {{log.files[i][j] : j \in 1..Len(log.files[i])} : i \in 1..MaxFiles}

\* lines 447-455: __init__ calls _open, which opens the file at the path
\* and seeks to its end, or leaves self.f = None when there is no file
open_at_end(log) ==
    IF log.at_path = 0 THEN ClosedHandler
    ELSE [f |-> log.at_path, pos |-> Len(log.files[log.at_path]),
          start |-> Len(log.files[log.at_path]), handed |-> {}]

\* the handler is constructed when the file exists and is empty, or when
\* it cannot be opened
InitTail ==
    /\ now = 0
    /\ dbUp = TRUE
    /\ oc_filecache = {}
    /\ oc_activity = << >>
    /\ audit_events = << >>
    /\ recent_actions = << >>
    /\ pending = [k \in KeySet |-> NoEntry]
    /\ workers = [w \in Slots |-> IdleWorker]
    /\ ingest = IdleIngest
    /\ calls = 0
    /\ hints = 0
    /\ ticks = 0
    /\ app = NoApp
    /\ recent_lock = Free
    /\ pending_lock = Free
    /\ access_log \in {NoLog, [NoLog EXCEPT !.at_path = 1]}
    /\ handler = open_at_end(access_log)

\* the web server appends a line to the file at the path; the observer
\* will report the modification
WriteLine ==
    /\ access_log.at_path # 0
    /\ \E n \in 1..MaxLines :
         /\ n \notin LinesWritten(access_log)
         /\ \A m \in 1..(n - 1) : m \in LinesWritten(access_log)
         /\ access_log' = [access_log EXCEPT !.files[access_log.at_path] = Append(@, n),
                                             !.dirty = access_log.at_path]
    /\ UNCHANGED <<TailFrame, handler>>

\* the file appears at the path for the first time
CreateLog ==
    /\ access_log.at_path = 0
    /\ access_log' = [access_log EXCEPT !.at_path = 1]
    /\ UNCHANGED <<TailFrame, handler>>

\* log rotation: the file is renamed away and a new, empty file takes its
\* place at the path
RotateLog ==
    /\ access_log.at_path # 0
    /\ access_log.at_path < MaxFiles
    /\ access_log' = [access_log EXCEPT !.at_path = @ + 1]
    /\ UNCHANGED <<TailFrame, handler>>

\* lines 456-469: on_modified for a modification of the path: reopen if
\* self.f is None, then readline until end of file, every line handed on
on_modified ==
    /\ access_log.dirty # 0
    /\ access_log' = [access_log EXCEPT !.dirty = 0]
    /\ LET h == IF handler.f = 0 THEN open_at_end(access_log) ELSE handler IN
         IF h.f = 0
         THEN handler' = h
         ELSE handler' = [h EXCEPT
                  !.pos = Len(access_log.files[h.f]),
                  !.handed = @ \cup {access_log.files[h.f][j] :
                                        j \in (h.pos + 1)..Len(access_log.files[h.f])}]
    /\ UNCHANGED TailFrame

NextTail ==
    \/ WriteLine
    \/ CreateLog
    \/ RotateLog
    \/ on_modified

SpecTail == InitTail /\ [][NextTail]_vars


(***************************************************************************)
(* find_username_for_fileid_or_path applied to small activity tables       *)
(***************************************************************************)
MaxActorRows == 2    \* rows of oc_activity in a lookup

ActorPath == normalize_resource(UrlPdf)

\* rows of oc_activity with app = 'files': for the file's id or another
\* one, naming the path or not, by a user, a system account or nobody
ActorRows ==
    { [object_id |-> o, file |-> f, subjectparams |-> << >>, user |-> u] :
          o \in {52, 7}, f \in {ActorPath, << >>}, u \in {"alice", "cron", ""} }

RECURSIVE ActorTables(_)
ActorTables(n) ==
    IF n = 0 THEN {<< >>}
    ELSE ActorTables(n - 1) \cup {<<r>> \o t : r \in ActorRows, t \in ActorTables(n - 1)}

\* the table, newest row first, and the id the worker knows are drawn first
InitActor ==
    /\ now = 0
    /\ dbUp = TRUE
    /\ oc_filecache = {}
    /\ oc_activity \in ActorTables(MaxActorRows)
    /\ audit_events = << >>
    /\ recent_actions = << >>
    /\ pending = [k \in KeySet |-> NoEntry]
    /\ workers = [w \in Slots |-> IdleWorker]
    /\ ingest = IdleIngest
    /\ calls = 0
    /\ hints = 0
    /\ ticks = 0
    /\ app \in {[fn |-> "input", arg |-> [fileid |-> i, path |-> ActorPath], out |-> ""] :
                    i \in {NoId, 52}}
    /\ recent_lock = Free
    /\ pending_lock = Free
    /\ access_log = NoLog
    /\ handler = ClosedHandler

ActorFrame == <<access_log, handler, recent_lock, pending_lock, now, oc_filecache, oc_activity, audit_events,
                recent_actions, pending, workers, ingest, calls, hints, ticks>>

\* the database fails before the lookup
ActorDbDown ==
    /\ app.fn = "input"
    /\ dbUp
    /\ dbUp' = FALSE
    /\ UNCHANGED <<ActorFrame, app>>

\* lines 127-162; a failing statement is caught at line 160 and None is
\* returned
ApplyFindUsername ==
    /\ app.fn = "input"
    /\ app' = [fn |-> "find_username_for_fileid_or_path", arg |-> app.arg,
               out |-> IF dbUp
                       THEN find_username_for_fileid_or_path(oc_activity, app.arg.fileid,
                                                             app.arg.path)
                       ELSE ""]
    /\ UNCHANGED <<ActorFrame, dbUp>>

NextActor ==
    \/ ActorDbDown
    \/ ApplyFindUsername

SpecActor == InitActor /\ [][NextActor]_vars


(***************************************************************************)
(* Properties                                                              *)
(***************************************************************************)
\* C1: for every canonical key at most one ResolutionWorker is in flight,
\* counting the thread the ingestion thread is about to start; a schedule
\* call for a key that is pending never starts a second one.
C1_OneWorkerPerKey ==
    /\ \A w1, w2 \in Slots :
           InFlight(w1) /\ InFlight(w2) /\ workers[w1].key = workers[w2].key => w1 = w2
    /\ \A w \in Slots : InFlight(w) /\ ingest.pc = "start" => workers[w].key # ingest.key

\* a second observation of a key arrived while its worker was in flight
C1_Witness ==
    \E w \in Slots :
        /\ InFlight(w)
        /\ pending[workers[w].key].thread = w
        /\ pending[workers[w].key].last_seen > pending[workers[w].key].first_seen

\* C2: when a worker has finished, either exactly one AuditRecord was
\* persisted for its event or the event was skipped as a duplicate, never
\* both and never neither.
C2_ExactlyOneTerminalAction ==
    \A w \in Slots :
        workers[w].pc = "done" =>
            \/ workers[w].inserted = 1 /\ ~workers[w].dup_seen
            \/ workers[w].inserted = 0 /\ workers[w].dup_seen

\* C3: no AuditRecord is ever produced for an event whose method is PROPFIND.
C3_NoPropfindRecord ==
    \A i \in 1..Len(audit_events) : upper(audit_events[i].method) # "PROPFIND"

\* the last persist attempt of a PROPFIND event has returned
C3_Witness ==
    \E w \in Slots :
        /\ workers[w].pc = "pop"
        /\ workers[w].site = "final"
        /\ workers[w].ev.method = "PROPFIND"

\* two rows that come from events identical except for their timestamps
SameEventButTime(r1, r2) ==
    /\ r1.original_resource = r2.original_resource
    /\ r1.ip = r2.ip
    /\ r1.method = r2.method
    /\ r1.status = r2.status

\* two rows that agree on the dedupe predicate: object id or resource,
\* username (absent equal to absent), ip, method, timestamps within
\* DEDUPE_SECONDS
SameDedupeFields(r1, r2) ==
    /\ \/ Truthy(r1.object_id) /\ r1.object_id = r2.object_id
       \/ r1.resource = r2.resource
    /\ coalesce_username(r1.username) = coalesce_username(r2.username)
    /\ r1.ip = r2.ip
    /\ r1.method = r2.method
    /\ Abs(r1.ts - r2.ts) <= DEDUPE_SECONDS

\* C4: two events identical except for timestamps at most DEDUPE_SECONDS
\* apart, with the same object id or resource, username, ip and method,
\* leave at most one AuditRecord.
C4_OneRecordPerDuplicate ==
    \A i, j \in 1..Len(audit_events) :
        /\ SameEventButTime(audit_events[i], audit_events[j])
        /\ SameDedupeFields(audit_events[i], audit_events[j])
        => i = j

\* a worker found the record of an earlier, otherwise identical event
C4_Witness ==
    \E w \in Slots :
        /\ InFlight(w)
        /\ workers[w].dup_seen
        /\ Len(audit_events) = 1
        /\ audit_events[1].raw_line # workers[w].ev.raw
        /\ audit_events[1].ts # workers[w].ev.ts

\* C5: no other worker's insert takes effect between a worker's dedupe
\* check and that worker's own insert.
C5_CheckInsertAtomic ==
    [][\A w \in Slots :
           workers[w].pc = "insert" /\ workers'[w].pc = "insert"
           => audit_events' = audit_events]_vars

\* C6: guess_username never returns the username of an entry older than
\* CORRELATION_WINDOW: a returned name is that of an entry inside the
\* window whose key matches the resource.
C6_NoStaleGuess ==
    app.fn = "guess_username" /\ app.out \notin {"", TypeError} =>
        \E i \in 1..Len(app.arg.cache) :
            LET e == app.arg.cache[i] IN
            /\ e.u = app.out
            /\ app.arg.at - e.t <= CORRELATION_WINDOW
            /\ Contains(app.arg.resource, e.k) \/ Contains(e.k, app.arg.resource)

\* a lookup made while an expired entry that matches was still in the cache
C6_Witness ==
    /\ app.fn = "guess_username"
    /\ \E i \in 1..Len(app.arg.cache) :
           LET e == app.arg.cache[i] IN
           /\ ~e.aware
           /\ app.arg.at - e.t > CORRELATION_WINDOW
           /\ Contains(app.arg.resource, e.k) \/ Contains(e.k, app.arg.resource)

\* the hint just recorded by add_recent_action, looked up at once
JustAdded ==
    /\ app.fn = "add_recent_action"
    /\ app.arg.resource # << >>
    /\ app.arg.user # ""
    /\ app.arg.at = now

\* C7 as stated: an entry inserted with a non-empty resource and user and
\* looked up immediately is returned, for every timestamp.
C7_InsertedIsReturned ==
    JustAdded => guess_username(recent_actions, app.arg.resource, now) = app.arg.user

\* The part of C7 the code keeps: the entry is returned when its timestamp
\* is offset-naive and not more than CORRELATION_WINDOW older than the
\* current time.
C7_FreshInsertedIsReturned ==
    JustAdded /\ ~app.arg.aware /\ app.arg.at - app.arg.ts <= CORRELATION_WINDOW
        => guess_username(recent_actions, app.arg.resource, now) = app.arg.user

\* a hint exactly CORRELATION_WINDOW old was recorded and is returned
C7_Witness ==
    /\ JustAdded
    /\ ~app.arg.aware
    /\ app.arg.at - app.arg.ts = CORRELATION_WINDOW
    /\ guess_username(recent_actions, app.arg.resource, now) = app.arg.user


\* what follows the first "?" of a raw URL
RawQuery(x) ==
    LET q == Find(x, "?") IN IF q = 0 THEN << >> ELSE Slice(x, q + 1, Len(x))

\* the key C8 describes: fileId=n (here looked for in the whole raw URL,
\* query string included), else /download/n, else /wopi/files/n_ in the
\* normalized URL, else the normalized URL itself
ClaimedKey(x) ==
    LET res == normalize_resource(x)
        m1  == SearchIdFrom(x, <<"fileId", "=">>, 1)
        m2  == SearchIdFrom(res, <<"/", "download", "/">>, 1)
        m3  == SearchWopiFrom(res, 1)
    IN  IF m1 # 0 THEN FileIdKey(IntFrom(x, m1, 0))
        ELSE IF m2 # 0 THEN FileIdKey(IntFrom(res, m2, 0))
        ELSE IF m3 # 0 THEN FileIdKey(IntFrom(res, m3, 0))
        ELSE ResourceKey(res)

\* C8: canonical_key_for_resource yields FileId(n) for a URL carrying
\* fileId=n in its query string, for a /download/n segment and for a
\* /wopi/files/n_ segment, in that order, and ResourceString(normalized
\* URL) otherwise.
C8_CanonicalKeyPrecedence ==
    app.fn = "canonical_key_for_resource" => app.out.key = ClaimedKey(app.arg)

\* C9: normalize_resource is idempotent.
C9_NormalizeIdempotent ==
    app.fn = "normalize_resource" => normalize_resource(app.out) = app.out

\* the names of the fields of a query string, whatever their values
RECURSIVE QueryFieldNames(_, _)
QueryFieldNames(query, i) ==
    IF i > Len(query) THEN {}
    ELSE LET amp   == FindFrom(query, "&", i)
             last  == IF amp = 0 THEN Len(query) ELSE amp - 1
             field == Slice(query, i, last)
             eq    == Find(field, "=")
             name  == IF eq = 0 THEN field ELSE Slice(field, 1, eq - 1)
         IN  {name} \cup (IF amp = 0 THEN {} ELSE QueryFieldNames(query, amp + 1))

\* the classification C10 describes
ClaimedKind(method, status, x) ==
    LET path == split_query(x)
        ext  == Len(path) > 0 /\ LowerTok(path[Len(path)]) \in FileExts
    IN  IF HasDownload(path) \/ (\E k \in QueryFieldNames(RawQuery(x), 1) : HasDownload(k))
        THEN "download"
        ELSE IF upper(method) = "PROPFIND" THEN "list"
        ELSE IF upper(method) = "GET" /\ status = 200 /\ ext THEN "download"
        ELSE IF upper(method) = "GET" /\ status = 200 THEN "view"
        ELSE "other"

\* C10: detect_event_type classifies by the precedence download token in
\* path or query key, PROPFIND, GET/200 with file extension, GET/200, other.
C10_ClassifierPrecedence ==
    app.fn = "detect_event_type" =>
        app.out = ClaimedKind(app.arg.method, app.arg.status, app.arg.resource)


\* the worker of the access event GET /remote.php/dav/files/alice/report.pdf
\* (no authenticated user, status 200) is about to end; no application-log
\* hint was ever recorded; the metadata store returned the file id of
\* FilecacheRows for the resource and "alice" as its last actor, which only
\* the polling loop before the deadline asks for
ResolvedByStore(w) ==
    /\ workers[w].pc = "pop"
    /\ hints = 0
    /\ [workers[w].ev EXCEPT !.username = ""] = EvPdf
    /\ workers[w].ev.username = "alice"
    /\ \E f \in FilecacheRows : workers[w].object_id = f.fileid

\* the worker persisted one record, with username "alice", the file id
\* and event kind "download", and no other such record of the event exists
OneResolvedRecord(w) ==
    /\ workers[w].inserted = 1
    /\ \E i \in 1..Len(audit_events) :
           /\ audit_events[i].raw_line = EvPdf.raw
           /\ audit_events[i].username = "alice"
           /\ audit_events[i].object_id = workers[w].object_id
           /\ audit_events[i].event_type = "download"
           /\ \A j \in 1..Len(audit_events) :
                  audit_events[j].raw_line = EvPdf.raw /\ audit_events[j].username = "alice"
                      => j = i

C12_EntryRemovedOnExit ==
    /\ \A w \in Slots : \A k \in KeySet :
           workers[w].pc = "done" => ~(pending[k].present /\ pending[k].thread = w)
    /\ \A k \in KeySet :
           pending[k].present =>
               \/ pending[k].thread = 0 /\ ingest.pc = "start" /\ ingest.key = k
               \/ /\ pending[k].thread \in Slots
                  /\ InFlight(pending[k].thread)
                  /\ workers[pending[k].thread].key = k

\* a worker ended without a record and a fresh worker of the same key runs
C12_Witness ==
    \E w1, w2 \in Slots :
        /\ workers[w1].pc = "done"
        /\ workers[w1].inserted = 0
        /\ InFlight(w2)
        /\ pending[workers[w2].key].present
        /\ pending[workers[w2].key].thread = w2


\* a step of worker w keeps the polling loop within its bounds: an
\* iteration starts only when the sleep is over and the deadline has not
\* passed, every sleep lasts RESOLVE_INTERVAL, the loop is left for the
\* final attempt only after the deadline, and after the final persist
\* attempt the worker only leaves
BoundedPolling(w) ==
    /\ workers[w].pc = "loop" /\ workers'[w].pc = "guess"
           => workers[w].wake <= now /\ now <= workers[w].deadline
    /\ workers[w].pc = "loop" /\ workers'[w].pc = "final_guess"
           => now > workers[w].deadline
    /\ workers[w].pc \in {"resolve", "check", "insert"} /\ workers'[w].pc = "loop"
           => workers'[w].wake = now + RESOLVE_INTERVAL
    /\ workers[w].site = "final" /\ workers[w].pc \in {"check", "insert"}
           => workers'[w].pc \in {"check", "insert", "pop"}

\* a running thread is at a position the worker has a step for, whose
\* guards are met
HasStep(w) ==
    /\ workers[w].pc \in {"begin", "loop", "guess", "resolve", "check", "insert",
                          "final_guess", "pop"}
    /\ workers[w].pc \in {"check", "insert"} => workers[w].site \in {"db", "early", "final"}
    /\ workers[w].pc = "resolve" => find_fileid_and_path(oc_filecache, workers[w].res) # {}
    /\ workers[w].pc = "pop" => workers[w].key \in KeySet

IsAppLogHint(ev) == ev.method = "" /\ ev.resource # << >>

\* C14: a parsed application-log hint only feeds the IdentityCache: no hint
\* is registered as pending, handed to a worker or written to audit_events,
\* neither by the start-up scan nor by live tailing.
C14_HintOnlyFeedsCache ==
    /\ ~IsAppLogHint(ingest.ev)
    /\ \A k \in KeySet : pending[k].present => ~IsAppLogHint(pending[k].ev)
    /\ \A w \in Slots : ~IsAppLogHint(workers[w].ev)
    /\ \A i \in 1..Len(audit_events) :
           ~(audit_events[i].method = "" /\ audit_events[i].raw_line = 0)

\* a hint of the start-up scan ended as a row of audit_events
HintPersisted ==
    \E i \in 1..Len(audit_events) :
        audit_events[i].method = "" /\ audit_events[i].raw_line = 0


Threads == Slots \cup {IngestThread}

\* the statement thread t is at lies inside a  with recent_lock  block
InRecentBlock(t) ==
    IF t = IngestThread THEN ingest.pc = "hinting"
    ELSE workers[t].pc \in {"guessing", "final_guessing"}

\* the statement thread t is at lies inside a  with pending_lock  block
InPendingBlock(t) ==
    IF t = IngestThread THEN ingest.pc \in {"registering", "starting"}
    ELSE workers[t].pc = "popping"

\* C15: no thread holds recent_lock and pending_lock at the same time; a
\* lock is held exactly by a thread inside a with block of that lock, whose
\* body needs no other lock, so a held lock is always released and no state
\* is a deadlock on the two locks; recent_actions and pending are read and
\* changed only by steps of a thread inside a with block of their own lock.
C15_LockDiscipline ==
    /\ [](\A t \in Threads : ~(recent_lock = t /\ pending_lock = t))
    /\ [](\A t \in Threads : /\ recent_lock = t <=> InRecentBlock(t)
                             /\ pending_lock = t <=> InPendingBlock(t))
    /\ [](recent_lock \in Threads \cup {Free} /\ pending_lock \in Threads \cup {Free})
    /\ [][recent_actions' # recent_actions => recent_lock # Free /\ recent_lock' = Free]_vars
    /\ [][pending' # pending => pending_lock # Free /\ pending_lock' = Free]_vars

\* both locks are held, by different threads: a worker reads the
\* IdentityCache while the ingestion thread registers a key, or the
\* ingestion thread records a hint while a worker removes its entry
C15_Witness ==
    /\ recent_lock # Free
    /\ pending_lock # Free
    /\ recent_lock # pending_lock


\* the ingestion thread is inside schedule_resolution_and_insert
InSchedule == ingest.pc \in {"register", "registering", "start", "starting"}

\* worker w sleeps between polls, queries the metadata store or the
\* persistence sink, or has not reached its first poll
AsleepOrQuerying(w) ==
    workers[w].pc \in {"begin", "loop", "resolve", "check", "insert", "final_path"}

\* C16: scheduling never blocks the ingestion loop: a worker that sleeps or
\* queries the store or the sink holds neither lock; the call returns when
\* it has started the worker, which has not run yet, or has refreshed the
\* entry of a worker still in flight; and every call that has begun
\* returns, whatever the sleeping and querying workers do.
C16_ScheduleNeverBlocks ==
    /\ [](\A w \in Slots : AsleepOrQuerying(w) => recent_lock # w /\ pending_lock # w)
    /\ [][InSchedule /\ ~InSchedule'
            => \/ \E w \in Slots : workers[w].pc = "idle" /\ workers'[w].pc = "begin"
               \/ \E w \in Slots : InFlight(w) /\ workers'[w] = workers[w]]_vars
    /\ InSchedule ~> ~InSchedule

\* a call is waiting for pending_lock, held by a worker that removes its
\* entry, while the clock stands still
C16_Witness ==
    /\ ingest.pc = "register"
    /\ \E w \in Slots : pending_lock = w


\* the fields of a row that _insert_event_db copies from the event
CarriesEvent(row, ev) ==
    /\ row.ts = ev.ts
    /\ row.ip = ev.ip
    /\ row.method = ev.method
    /\ row.status = ev.status
    /\ row.raw_line = ev.raw
    /\ row.original_resource = normalize_resource(ev.resource)

\* C17: a call of schedule_resolution_and_insert for a key that is pending
\* changes nothing but the entry's last_seen, which becomes the time of the
\* call (a line the ignore filter drops changes nothing at all): the
\* entry's event, first_seen, object id and thread stay, no
\* worker starts or changes, nothing of the new event is kept; a worker
\* works on the event of its entry and the row it writes carries the fields
\* of that first event.
C17_PendingKeyFrame ==
    /\ [][calls' # calls =>
            \A k \in KeySet : pending[k].present =>
                /\ \/ pending' = [pending EXCEPT ![k].last_seen = now]
                   \/ pending' = pending
                /\ workers' = workers
                /\ ingest' = ingest
                /\ audit_events' = audit_events
                /\ recent_actions' = recent_actions]_vars
    /\ [](\A w \in Slots : InFlight(w) =>
            /\ pending[workers[w].key].present
            /\ pending[workers[w].key].thread = w
            /\ workers[w].ev = [pending[workers[w].key].ev EXCEPT !.username = workers[w].ev.username])
    /\ [][audit_events' # audit_events =>
            \E w \in Slots :
                /\ workers[w].pc = "insert"
                /\ audit_events' = Append(audit_events, audit_events'[Len(audit_events')])
                /\ CarriesEvent(audit_events'[Len(audit_events')], pending[workers[w].key].ev)]_vars

\* a second line arrived for a pending key after its first, and the row
\* written for the key is the one of the first line
C17_Witness ==
    \E k \in KeySet :
        /\ pending[k].present
        /\ pending[k].last_seen > pending[k].first_seen
        /\ calls = 2
        /\ audit_events # << >>
        /\ CarriesEvent(audit_events[Len(audit_events)], pending[k].ev)


\* worker w is inside a persist attempt of a poll iteration
InLoopAttempt(w) ==
    workers[w].pc \in {"check", "insert"} /\ workers[w].site \in {"db", "early"}

\* C18: inside the polling loop a worker attempts to persist only with a
\* username known for the event; the attempt that succeeds is its last step
\* before the thread ends; the final attempt comes only after the deadline,
\* so a record written before it has a username.
C18_PersistOnlyWithUsername ==
    /\ [](\A w \in Slots : InLoopAttempt(w) => workers[w].ev.username # "")
    /\ [](\A w \in Slots : workers[w].site = "final" => now > workers[w].deadline)
    /\ [][\A w \in Slots : workers'[w].inserted > workers[w].inserted =>
            workers[w].inserted = 0 /\ workers'[w].pc = "pop"]_vars
    /\ [][audit_events' # audit_events =>
            \E w \in Slots :
                /\ workers[w].pc = "insert"
                /\ workers'[w].inserted = 1
                /\ workers[w].site # "final"
                       => audit_events'[Len(audit_events')].username # ""]_vars

\* a worker slept through an iteration in which no username was known and
\* persisted in a later one, before its deadline
C18_Witness ==
    \E w \in Slots :
        /\ workers[w].pc = "pop"
        /\ workers[w].inserted = 1
        /\ workers[w].site \in {"db", "early"}
        /\ workers[w].wake > workers[w].deadline - RESOLVE_WAIT
        /\ now <= workers[w].deadline

\* a worker persisted in its first iteration with the username of the
\* access log
AccessLogUserPersisted ==
    \E w \in Slots :
        workers[w].pc = "pop" /\ workers[w].inserted = 1 /\ workers[w].site = "early"
            /\ workers[w].ev.username = "carol"


\* worker w has left the code that follows the loop (lines 367-383)
AfterFinalAttempt(w) == workers[w].pc = "pop" /\ workers[w].site = "final"

\* C19: when the deadline expires without a successful persist, the worker
\* takes a final guess, looks the path up once more and persists
\* unconditionally: a record is written for the event, with or without a
\* username.  Stated for the events the sink accepts: not a PROPFIND
\* request, no duplicate found, no failure of the database.
C19_FinalAttemptPersists ==
    \A w \in Slots :
        /\ AfterFinalAttempt(w)
        /\ upper(workers[w].ev.method) # "PROPFIND"
        /\ ~workers[w].dup_seen
        /\ ~workers[w].sink_failed
        => workers[w].inserted = 1

\* the final attempt wrote a record without a username
FinalPersistedAnonymous ==
    \E w \in Slots :
        AfterFinalAttempt(w) /\ workers[w].inserted = 1 /\ workers[w].ev.username = ""


\* C20: when the dedupe check finds a matching record the insert is
\* skipped, and the skip is terminal for the event: after it the worker
\* only ends, it neither polls nor attempts to persist again.
C20_DedupeSkipTerminal ==
    \A w \in Slots : workers[w].dup_seen => workers[w].pc \in {"pop", "done"}

\* a worker whose dedupe check found a duplicate is in a further persist
\* attempt for the same event
RetryAfterDuplicate ==
    \E w \in Slots : workers[w].dup_seen /\ workers[w].pc = "check"


\* worker w is inside a poll iteration, at the database block or at one of
\* its persist attempts
InPollIteration(w) == workers[w].pc = "resolve" \/ InLoopAttempt(w)

\* C21: a failure of the metadata store or of the sink in a poll iteration
\* does not end the worker and does not change the audit table: the worker
\* goes on to the early attempt or sleeps RESOLVE_INTERVAL and polls again;
\* and a worker that had such a failure still persists its event: it gives
\* up without a record only when the final attempt fails in the sink as
\* well.  Stated for events that are neither PROPFIND requests nor
\* duplicates of a record.
C21_RetryAfterFailure ==
    /\ [][\A w \in Slots :
            InPollIteration(w) /\ workers'[w] # workers[w]
                /\ workers'[w].inserted = workers[w].inserted
            => /\ audit_events' = audit_events
               /\ workers'[w].pc \in {"check", "insert", "loop"}
               /\ workers'[w].pc = "loop" => workers'[w].wake = now + RESOLVE_INTERVAL]_vars
    /\ [][\A w \in Slots :
            /\ workers[w].sink_failed
            /\ workers[w].pc # "pop" /\ workers'[w].pc = "pop"
            /\ workers'[w].inserted = 0
            /\ upper(workers[w].ev.method) # "PROPFIND"
            /\ ~workers'[w].dup_seen
            => workers[w].pc \in {"check", "insert"} /\ workers[w].site = "final"]_vars

\* a worker whose persist attempt failed in one iteration persisted the
\* event in a later one
PersistedAfterFailure ==
    \E w \in Slots :
        workers[w].pc = "pop" /\ workers[w].sink_failed /\ workers[w].inserted = 1
            /\ workers[w].site \in {"db", "early"}


\* the row a step appended to audit_events
NewRow == audit_events'[Len(audit_events')]

\* C22: every persisted record has original_resource equal to the
\* normalized raw URL of its event; its resource is the path the worker
\* resolved from oc_filecache if it has one, else original_resource; its
\* object_id is the id the worker knows when it inserts, or absent.
C22_RecordResources ==
    /\ [][audit_events' # audit_events =>
            \E w \in Slots :
                /\ workers[w].pc = "insert"
                /\ audit_events' = Append(audit_events, NewRow)
                /\ NewRow.original_resource = normalize_resource(workers[w].ev.resource)
                /\ NewRow.resource = IF workers[w].resolved_path # << >>
                                     THEN workers[w].resolved_path
                                     ELSE NewRow.original_resource
                /\ NewRow.object_id = workers[w].object_id]_vars
    /\ [](\A w \in Slots : workers[w].resolved_path # << >> =>
            \E f \in oc_filecache :
                /\ workers[w].resolved_path = with_leading_slash(f.path)
                /\ workers[w].object_id = f.fileid)
    /\ [](\A i \in 1..Len(audit_events) :
            /\ \E ev \in EventInputs :
                  /\ ev.raw = audit_events[i].raw_line
                  /\ audit_events[i].original_resource = normalize_resource(ev.resource)
            /\ \/ /\ audit_events[i].resource = audit_events[i].original_resource
                  /\ audit_events[i].object_id \in {NoId} \cup {f.fileid : f \in oc_filecache}
               \/ \E f \in oc_filecache :
                     /\ audit_events[i].resource = with_leading_slash(f.path)
                     /\ audit_events[i].object_id = f.fileid)

\* one record with the path and id resolved from the store and one with
\* the raw URL and no id
C22_Witness ==
    /\ \E i \in 1..Len(audit_events) :
           /\ audit_events[i].resource # audit_events[i].original_resource
           /\ Truthy(audit_events[i].object_id)
    /\ \E i \in 1..Len(audit_events) :
           /\ audit_events[i].resource = audit_events[i].original_resource
           /\ audit_events[i].object_id = NoId


\* C23: the event kind stored in a persisted record is the classifier's
\* result for the event's method, status and the path plus query of its
\* URL; a URL with "download" only as a query-parameter key is persisted
\* as 'download'.
C23_StoredKindIsClassified ==
    \A i \in 1..Len(audit_events) :
        \E ev \in KindInputs :
            /\ ev.raw = audit_events[i].raw_line
            /\ audit_events[i].event_type = detect_event_type(ev.method, ev.status, ev.resource)

\* the request with the query key download is recorded as a view
QueryDownloadStoredAsView ==
    \E i \in 1..Len(audit_events) :
        audit_events[i].raw_line = EvQueryDownload.raw /\ audit_events[i].event_type = "view"


\* first actor of rows, newest first, that is non-empty and, if humans is
\* set, not in the blacklist
RECURSIVE MostRecentActor(_, _, _)
MostRecentActor(rows, i, humans) ==
    IF i > Len(rows) THEN ""
    ELSE IF rows[i].user # "" /\ (humans => rows[i].user \notin HUMAN_BLACKLIST)
         THEN rows[i].user
    ELSE MostRecentActor(rows, i + 1, humans)

\* the rows the claim looks at: those of the object id, or of the raw path
\* when there is no id
ClaimedRows(activity, fileid, path) ==
    IF Truthy(fileid)
    THEN SelectSeq(activity, LAMBDA r : r.object_id = fileid)
    ELSE SelectSeq(activity, LAMBDA r : r.file = path \/ Contains(r.subjectparams, path))

\* C24: find_username_for_fileid_or_path returns the most recent actor
\* that is non-empty and not blacklisted among the activity rows of the
\* object id, or of the raw path if there is no id; if there is none, the
\* most recent actor regardless of the blacklist; nothing when there are no
\* rows or the store fails.
C24_MostRecentHumanActor ==
    app.fn = "find_username_for_fileid_or_path" =>
        LET rows == ClaimedRows(oc_activity, app.arg.fileid, app.arg.path) IN
        app.out = IF ~dbUp THEN ""
                  ELSE IF MostRecentActor(rows, 1, TRUE) # ""
                  THEN MostRecentActor(rows, 1, TRUE)
                  ELSE MostRecentActor(rows, 1, FALSE)

\* the id is known and has no activity rows, and the answer is the actor
\* of a row found by the path
ActorFoundByPathDespiteId ==
    /\ app.fn = "find_username_for_fileid_or_path"
    /\ Truthy(app.arg.fileid)
    /\ ClaimedRows(oc_activity, app.arg.fileid, app.arg.path) = << >>
    /\ app.out # ""

\* the rows name a system account, and the answer is nothing because the
\* newest row has no actor
SystemActorNotReturned ==
    /\ app.fn = "find_username_for_fileid_or_path"
    /\ dbUp
    /\ MostRecentActor(ClaimedRows(oc_activity, app.arg.fileid, app.arg.path), 1, FALSE) = "cron"
    /\ app.out = ""


\* C25: after the log file was missing or was replaced by a new file at
\* the same path, the handler reopens it on a later change notification:
\* when on_modified has run for a modification of the file at the path,
\* the handler holds that file and has handed on every line appended to
\* it since it opened it.
C25_ReopensAfterRotation ==
    [][access_log.dirty = access_log.at_path /\ access_log'.dirty = 0 /\ access_log.at_path # 0 =>
          /\ handler'.f = access_log.at_path
          /\ \A j \in (handler'.start + 1)..Len(access_log.files[access_log.at_path]) :
                 access_log.files[access_log.at_path][j] \in handler'.handed]_vars

\* the handler was constructed without a file, opened the file on a
\* notification and handed on a line written after that
ReopenedWhenMissing ==
    /\ handler.f = 1
    /\ handler.start > 0
    /\ handler.handed # {}

\* on_modified has run for a line of the new file, and the handler still
\* holds the file that was rotated away
StuckOnRotatedFile ==
    /\ access_log.dirty = 0
    /\ access_log.at_path = 2
    /\ access_log.files[2] # << >>
    /\ handler.f = 1




\* the event as the access log delivered it to the worker that runs for
\* the same key as worker w (the 'ev' of the pending entry, line 322)
DeliveredEvent(w) == pending[workers[w].key].ev

\* C26: if the access-log line carries an authenticated user, the record
\* persisted for that event carries that user: neither a guess from the
\* identity cache nor an actor of the metadata store replaces it.
C26_AccessLogUserKept ==
    [][\A w \in Slots :
          /\ workers[w].pc = "insert"
          /\ workers'[w].inserted > workers[w].inserted
          /\ DeliveredEvent(w).username # ""
          => NewRow.username = DeliveredEvent(w).username]_vars

\* a record was persisted for the request of carol, under another name
AccessLogUserReplaced ==
    \E i \in 1..Len(audit_events) :
        audit_events[i].raw_line = EvPdfUser.raw /\ audit_events[i].username # "carol"

(***************************************************************************)
(* The program with the argument of the last call of                       *)
(* schedule_resolution_and_insert kept on record                           *)
(***************************************************************************)
\* requests for one file that differ in method and user, and a request the
\* ignore filter drops
CoalesceInputs == {EvPropfind, EvPdf, EvPdfUser, EvIgnore}

\* Schedule_Call without the ignore filter of lines 313-316
Schedule_Call_NoIgnoreFilter(lines) ==
    /\ ingest.pc = "idle"
    /\ calls < MaxCalls
    /\ calls' = calls + 1
    /\ \E ev \in lines :
         LET res == normalize_resource(ev.resource)
             ck  == canonical_key_for_resource(res)
         IN  /\ app' = [fn |-> "schedule_resolution_and_insert", arg |-> ev, out |-> << >>]
             /\ IF pending[ck.key].present
                THEN /\ pending' = [pending EXCEPT ![ck.key].last_seen = now]
                     /\ UNCHANGED ingest
                ELSE /\ FreeSlots # {}
                     /\ pending' = [pending EXCEPT ![ck.key] =
                            [present |-> TRUE, first_seen |-> now, last_seen |-> now,
                             thread |-> 0, ev |-> ev, object_id |-> ck.fid]]
                     /\ ingest' = [pc |-> "start", ev |-> ev, key |-> ck.key,
                                   fid |-> ck.fid, res |-> res]
    /\ UNCHANGED <<access_log, handler, recent_lock, pending_lock, now, dbUp, oc_filecache,
                   oc_activity, audit_events, recent_actions, workers, hints, ticks>>

\* lines 311-322, as Schedule, with the call and its argument recorded
Schedule_Call(lines) ==
    /\ ingest.pc = "idle"
    /\ calls < MaxCalls
    /\ calls' = calls + 1
    /\ \E ev \in lines :
         LET res == normalize_resource(ev.resource)
             ck  == canonical_key_for_resource(res)
         IN  /\ app' = [fn |-> "schedule_resolution_and_insert", arg |-> ev, out |-> << >>]
             /\ IF \E ign \in IGNORE_PATTERNS : Contains(res, ign)
                THEN UNCHANGED <<pending, ingest>>
                ELSE IF pending[ck.key].present
                THEN /\ pending' = [pending EXCEPT ![ck.key].last_seen = now]
                     /\ UNCHANGED ingest
                ELSE /\ FreeSlots # {}
                     /\ pending' = [pending EXCEPT ![ck.key] =
                            [present |-> TRUE, first_seen |-> now, last_seen |-> now,
                             thread |-> 0, ev |-> ev, object_id |-> ck.fid]]
                     /\ ingest' = [pc |-> "start", ev |-> ev, key |-> ck.key,
                                   fid |-> ck.fid, res |-> res]
    /\ UNCHANGED <<access_log, handler, recent_lock, pending_lock, now, dbUp, oc_filecache,
                   oc_activity, audit_events, recent_actions, workers, hints, ticks>>

NextCoalesce ==
    \/ ClockAdvance
    \/ DbToggle
    \/ StoreFile
    \/ StoreActivity
    \/ Schedule_Call(CoalesceInputs)
    \/ StartThread
    \/ \E w \in Slots : Worker(w)

SpecCoalesce == Init /\ [][NextCoalesce]_vars

\* record r stands for event ev as far as resource or object id, ip, method
\* and time go (the username is left open)
CoveredBy(r, ev) ==
    /\ \/ r.original_resource = normalize_resource(ev.resource)
       \/ Truthy(r.object_id) /\ r.object_id = KeyOf(ev).fid
    /\ r.ip = ev.ip
    /\ r.method = ev.method
    /\ Abs(r.ts - ev.ts) <= DEDUPE_SECONDS

\* the last call has returned, its event passed the filters and is no
\* PROPFIND, and worker w is about to remove the entry of the event's key
\* without any failure of the sink
LastEventSettledBy(w) ==
    /\ app.fn = "schedule_resolution_and_insert"
    /\ ingest.pc = "idle"
    /\ upper(app.arg.method) # "PROPFIND"
    /\ ~\E ign \in IGNORE_PATTERNS : Contains(normalize_resource(app.arg.resource), ign)
    /\ workers[w].pc = "pop"
    /\ workers[w].key = KeyOf(app.arg).key
    /\ ~workers[w].sink_failed

\* C27: no accepted access event is lost through coalescing: when the
\* worker of its key is through, a non-PROPFIND event that passed the
\* filters has a record of its own or a record that matches it, also when
\* it arrived while an event of another ip, method or user was pending.
C27_NoEventLostByCoalescing ==
    \A w \in Slots :
        LastEventSettledBy(w) => \E i \in 1..Len(audit_events) : CoveredBy(audit_events[i], app.arg)

\* carol's GET arrived while a PROPFIND for the file was pending, the
\* worker is through and the audit table is empty
GetLostBehindPropfind ==
    \E w \in Slots :
        /\ LastEventSettledBy(w)
        /\ app.arg = EvPdfUser
        /\ workers[w].ev.method = "PROPFIND"
        /\ audit_events = << >>

\* the audit table holds a record similar to the one worker w is about to
\* write (the rows the dedupe query of lines 199-222 would return)
SimilarRecordExists(w) ==
    LET wr  == workers[w]
        row == audit_row(wr.ev, wr.object_id, wr.resolved_path)
    IN  already_similar(audit_events, row.ts, row.username, row.ip, row.method,
                        row.resource, wr.object_id)

\* C28: a dedupe query that fails counts as 'no duplicate' and the attempt
\* goes on to the INSERT: a persist attempt is given up as a duplicate only
\* if a similar record exists, and an attempt that reaches the dedupe check
\* with the sink reachable and no similar record goes on to the INSERT.
C28_DedupeFailOpen ==
    /\ [][\A w \in Slots :
            workers[w].pc = "check" /\ ~workers[w].dup_seen /\ workers'[w].dup_seen
                => SimilarRecordExists(w)]_vars
    /\ [][\A w \in Slots :
            /\ workers[w].pc = "check"
            /\ workers'[w] # workers[w]
            /\ upper(workers[w].ev.method) # "PROPFIND"
            /\ dbUp
            /\ ~SimilarRecordExists(w)
            => workers'[w].pc = "insert"]_vars

\* the dedupe query of a worker failed although a similar record exists,
\* and the worker is at the INSERT
C28_Witness ==
    \E w \in Slots :
        /\ workers[w].pc = "insert"
        /\ ~workers[w].conn_ok
        /\ ~workers[w].dup_seen
        /\ SimilarRecordExists(w)

(***************************************************************************)
(* The program reading one more request, which names a file by id or by    *)
(* path                                                                    *)
(***************************************************************************)
InitId ==
    /\ now = 0
    /\ dbUp = TRUE
    /\ oc_filecache = IdFilecacheRows
    /\ oc_activity = << >>
    /\ audit_events = << >>
    /\ recent_actions = << >>
    /\ pending = [k \in KeySet |-> NoEntry]
    /\ workers = [w \in Slots |-> IdleWorker]
    /\ ingest = IdleIngest
    /\ calls = MaxCalls - 1
    /\ hints = 0
    /\ ticks = 0
    /\ app = NoApp
    /\ recent_lock = Free
    /\ pending_lock = Free
    /\ access_log = NoLog
    /\ handler = ClosedHandler

NextId ==
    \/ ClockAdvance
    \/ DbToggle
    \/ StoreActivity
    \/ Schedule(IdInputs)
    \/ StartThread
    \/ \E w \in Slots : Worker(w)

SpecId == InitId /\ [][NextId]_vars

\* worker w runs before and after the step
StaysInFlight(w) == InFlight(w) /\ workers'[w].pc \notin {"idle", "done"}

\* an object id that is known does not change while the worker runs
KnownIdKept ==
    [][\A w \in Slots :
          StaysInFlight(w) /\ Truthy(workers[w].object_id)
              => workers'[w].object_id = workers[w].object_id]_vars

\* a resolved path that is set is not overwritten while the worker runs
ResolvedPathKept ==
    [][\A w \in Slots :
          StaysInFlight(w) /\ workers[w].resolved_path # << >>
              => workers'[w].resolved_path = workers[w].resolved_path]_vars

\* a worker whose key is FileId(n) works with object id n, in every
\* persist attempt and in the record it writes
FileIdKeyGivesObjectId ==
    /\ [](\A w \in Slots :
             InFlight(w) /\ workers[w].key.kind = "fileid"
                 => workers[w].object_id = workers[w].key.fid)
    /\ [][\A w \in Slots :
             /\ workers[w].pc = "insert"
             /\ workers'[w].inserted > workers[w].inserted
             /\ workers[w].key.kind = "fileid"
             => NewRow.object_id = workers[w].key.fid]_vars

\* C29: once a worker knows an object id it never changes it: with the key
\* FileId(n) it uses n throughout and never takes an id from a lookup by
\* path; an id obtained from the store is kept by later iterations; a
\* resolved path that is set is never overwritten.
C29_ObjectIdStable ==
    /\ KnownIdKept
    /\ ResolvedPathKept
    /\ FileIdKeyGivesObjectId

\* the worker for the key FileId(0) works with the id of another file
IdTakenFromPathLookup ==
    \E w \in Slots :
        /\ workers[w].key = FileIdKey(0)
        /\ workers[w].object_id = 7
        /\ workers[w].pc = "insert"

\* the normalized resource of event ev contains an ignore pattern
Ignored(ev) ==
    \E ign \in IGNORE_PATTERNS : Contains(normalize_resource(ev.resource), ign)

\* C30: an event whose normalized resource contains an ignore pattern is
\* dropped by schedule_resolution_and_insert before any state changes: the
\* call leaves the pending map, the workers and the audit table as they
\* are, and no pending entry, worker or record ever carries such an event.
C30_IgnoredEventChangesNothing ==
    /\ [][calls' # calls /\ Ignored(app'.arg)
            => UNCHANGED <<pending, workers, ingest, audit_events, recent_actions>>]_vars
    /\ [](\A k \in KeySet : pending[k].present => ~Ignored(pending[k].ev))
    /\ [](\A w \in Slots : InFlight(w) => ~Ignored(workers[w].ev))
    /\ [](\A i \in 1..Len(audit_events) :
             ~\E ign \in IGNORE_PATTERNS : Contains(audit_events[i].original_resource, ign))

\* the last call was for a request to the WOPI settings page, made while a
\* worker was running for another request
C30_Witness ==
    /\ app.fn = "schedule_resolution_and_insert"
    /\ app.arg = EvIgnore
    /\ calls = MaxCalls
    /\ \E w \in Slots : InFlight(w)
    /\ ~pending[KeyOf(EvIgnore).key].present
====
